---- MODULE Spec2Model ----
(***************************************************************************)
(* The whistle-pool program (contracts/programs/whistle-pool/src/lib.rs)   *)
(* as a state machine: the pool account, the Merkle tree account, the      *)
(* roots-history ring, the nullifier set and the vault, with one action    *)
(* per instruction handler.                                                *)
(*                                                                         *)
(* 32-byte values are modelled as terms: Z is the all-zero value, <<c>> a  *)
(* caller-chosen non-zero value and <<l, r>> the two-to-one hash of l and  *)
(* r (injective and never all-zero, as the claims assume).                 *)
(*                                                                         *)
(* Sizes are bounded analogues of the program's: the tree depth range      *)
(* 7..13 is MIN_LEVELS..MAX_LEVELS, the 16384-node array (2^(13+1)) is     *)
(* NodesLen = 2^(MAX_LEVELS+1), the 100-slot history is ROOTS_LEN slots,   *)
(* the 4096-entry nullifier array is NULLIFIER_CAP entries, u64 is         *)
(* 0..U64_MAX, and amounts are counted in units of 10^6 lamports.          *)
(***************************************************************************)
EXTENDS Integers, Sequences, FiniteSets, TLC

\* ------------------------------------------------------------------ sizes
\* merkle_levels range accepted by initialize (7 and 13 in the source)
MIN_LEVELS == 1
MAX_LEVELS == 2
\* RootsHistory.roots length (100 in the source)
ROOTS_LEN == 3
\* NullifierSet.nullifiers length (4096 in the source)
NULLIFIER_CAP == 2
\* largest u64 (2^64 - 1 in the source): the fourth minimum deposit overflows
U64_MAX == 35
\* root-history pushes after which no further private_transfer is submitted
MaxPushes == 3

\* MerkleTree.nodes length: 16384 = 2^(13+1)
NodesLen == 2 ^ (MAX_LEVELS + 1)

\* ------------------------------------------------- constants (10^6 lamports)
DENOM_001_SOL == 10
DENOM_005_SOL == 50
DENOM_01_SOL == 100
DENOM_1_SOL == 1000
DENOM_10_SOL == 10000
DENOM_100_SOL == 100000
MIN_DEPOSIT == 10

\* ----------------------------------------------------------------- values
\* [0u8; 32]
Z == << >>

\* a non-zero 32-byte value chosen by a caller
Val(c) == << c >>

\* merkle_hash(left, right): the two-to-one hash, as a free term
merkle_hash(left, right) == << left, right >>

Min(a, b) == IF a < b THEN a ELSE b

\* u64::wrapping_add in place of checked_add
wrapping_add(a, b) == (a + b) % (U64_MAX + 1)

\* u64::saturating_sub: a subtraction that stops at zero instead of failing
saturating_sub(a, b) == IF a < b THEN 0 ELSE a - b

\* u64::checked_add / checked_sub: None is modelled as -1
checked_add(a, b) == IF a + b > U64_MAX THEN -1 ELSE a + b
checked_sub(a, b) == IF a < b THEN -1 ELSE a - b

VARIABLES
    created,        \* the accounts that exist (Anchor `init` creates each once)
    pool,           \* PoolState
    merkle_tree,    \* MerkleTree.nodes
    roots_history,  \* RootsHistory
    nullifiers,     \* NullifierSet
    pool_vault,     \* lamports of the vault PDA
    last,           \* the last instruction: its name, arguments, result and what it wrote
    hist            \* history of the run: what the committed instructions did, in order

vars == << created, pool, merkle_tree, roots_history, nullifiers, pool_vault, last, hist >>

\* ------------------------------------------------------------ MerkleTree
\* 2 * parent + 1 and 2 * parent + 2 read with the bounds check of the source
node_or_zero(nodes, i) == IF i < NodesLen THEN nodes[i] ELSE Z

\* the while loop of insert_leaf: recompute every ancestor of `current`
RECURSIVE recompute_path(_, _)
recompute_path(nodes, current) ==
    IF current > 0
    THEN LET parent == (current - 1) \div 2
             left == node_or_zero(nodes, 2 * parent + 1)
             right == node_or_zero(nodes, 2 * parent + 2)
         IN recompute_path([nodes EXCEPT ![parent] = merkle_hash(left, right)], parent)
    ELSE nodes

\* insert_leaf writing every leaf at the first leaf position
insert_leaf_at_first(nodes, leaf, index, levels) ==
    LET lv == Min(levels, MAX_LEVELS)
        leaf_offset == (2 ^ lv) - 1
        leaf_pos == leaf_offset
    IN IF leaf_pos < NodesLen
       THEN recompute_path([nodes EXCEPT ![leaf_pos] = leaf], leaf_pos)
       ELSE nodes

\* insert_leaf recomputing the parent of the leaf and no node above it
insert_leaf_one_level(nodes, leaf, index, levels) ==
    LET lv == Min(levels, MAX_LEVELS)
        leaf_offset == (2 ^ lv) - 1
        leaf_pos == leaf_offset + index
        parent == (leaf_pos - 1) \div 2
        written == [nodes EXCEPT ![leaf_pos] = leaf]
    IN IF leaf_pos < NodesLen
       THEN [written EXCEPT ![parent] = merkle_hash(node_or_zero(written, 2 * parent + 1),
                                                     node_or_zero(written, 2 * parent + 2))]
       ELSE nodes

\* MerkleTree::insert_leaf(leaf, index, levels)
insert_leaf(nodes, leaf, index, levels) ==
    LET lv == Min(levels, MAX_LEVELS)
        leaf_offset == (2 ^ lv) - 1
        leaf_pos == leaf_offset + index
    IN IF leaf_pos < NodesLen
       THEN recompute_path([nodes EXCEPT ![leaf_pos] = leaf], leaf_pos)
       ELSE nodes

\* a 32-byte value that is not below the field modulus: commitments are
\* unchecked instruction arguments, so a caller may pass one
NotInField == Val(3)

\* the Poseidon syscall returns an error for an input outside the field
\* (merkle_hash unwraps its result with expect, lines 826-830)
poseidon_fails(left, right) == NotInField \in {left, right}

\* the while loop of insert_leaf reaches a merkle_hash whose syscall fails
RECURSIVE path_aborts(_, _)
path_aborts(nodes, current) ==
    IF current > 0
    THEN LET parent == (current - 1) \div 2
             left == node_or_zero(nodes, 2 * parent + 1)
             right == node_or_zero(nodes, 2 * parent + 2)
         IN \/ poseidon_fails(left, right)
            \/ path_aborts([nodes EXCEPT ![parent] = merkle_hash(left, right)], parent)
    ELSE FALSE

\* MerkleTree::insert_leaf(leaf, index, levels) does not return: the expect
\* of merkle_hash panics on the way up
insert_leaf_aborts(nodes, leaf, index, levels) ==
    LET lv == Min(levels, MAX_LEVELS)
        leaf_offset == (2 ^ lv) - 1
        leaf_pos == leaf_offset + index
    IN leaf_pos < NodesLen /\ path_aborts([nodes EXCEPT ![leaf_pos] = leaf], leaf_pos)

\* get_root returning the left child of the root
get_root_left_child(nodes) == nodes[1]

\* MerkleTree::get_root
get_root(nodes) == nodes[0]

\* ---------------------------------------------------------- RootsHistory
\* RootsHistory::contains: a scan of all the slots
contains(rh, root) == \E i \in 0 .. ROOTS_LEN - 1 : rh.roots[i] = root

\* a push that advances the cursor first and writes at the new cursor
push_root_cursor_first(rh, root) ==
    [current_index |-> (rh.current_index + 1) % ROOTS_LEN,
     roots |-> [rh.roots EXCEPT ![(rh.current_index + 1) % ROOTS_LEN] = root]]

\* a push that advances the cursor without reducing it modulo the length
push_root_no_modulo(rh, root) ==
    [current_index |-> rh.current_index + 1,
     roots |-> [rh.roots EXCEPT ![rh.current_index] = root]]

\* a push whose cursor stays on the last slot instead of wrapping to the first
push_root_no_wrap(rh, root) ==
    [current_index |-> IF rh.current_index + 1 < ROOTS_LEN THEN rh.current_index + 1 ELSE rh.current_index,
     roots |-> [rh.roots EXCEPT ![rh.current_index] = root]]

\* the push the handlers inline: write at the cursor, advance it modulo the length
push_root(rh, root) ==
    [current_index |-> (rh.current_index + 1) % ROOTS_LEN,
     roots |-> [rh.roots EXCEPT ![rh.current_index] = root]]

\* ---------------------------------------------------------- NullifierSet
\* is_spent with a scan that stops one entry early
is_spent_short_scan(ns, nullifier) ==
    \E i \in 0 .. ns.count - 2 : i < NULLIFIER_CAP /\ ns.nullifiers[i] = nullifier

\* NullifierSet::is_spent
is_spent(ns, nullifier) ==
    \E i \in 0 .. ns.count - 1 : i < NULLIFIER_CAP /\ ns.nullifiers[i] = nullifier

\* mark_spent writing its entry over the first slot instead of the next free one
mark_spent_over_first(ns, nullifier) ==
    [count |-> ns.count + 1,
     nullifiers |-> [ns.nullifiers EXCEPT ![0] = nullifier]]

\* NullifierSet::mark_spent: the set after a successful call
mark_spent(ns, nullifier) ==
    [count |-> ns.count + 1,
     nullifiers |-> [ns.nullifiers EXCEPT ![ns.count] = nullifier]]

\* the require! of mark_spent with the comparison off by one
mark_spent_full_off_by_one(ns) == ~(ns.count <= NULLIFIER_CAP)

\* the require! of mark_spent
mark_spent_full(ns) == ~(ns.count < NULLIFIER_CAP)

\* ------------------------------------------------------------- handlers
\* A handler is an operator from the accounts it is given (and its arguments)
\* to its result and the accounts as it has written them when it returns.
AccountNames == {"pool", "tree", "roots", "nulls", "vault"}

\* `log` (the leaf_index and commitment of every Shielded / ChangeCreated /
\* NoteCreated event) and `pushes` (the number of history pushes) record what
\* the handlers did.
Accounts ==
    [pool |-> pool, tree |-> merkle_tree, roots |-> roots_history,
     nulls |-> nullifiers, vault |-> pool_vault,
     log |-> hist.leaf_log, pushes |-> hist.pushes, recent |-> hist.recent, out |-> << >>]

Ret(res, A) == [res |-> res, acc |-> A]

\* the accounts a handler has changed when it returns
Written(A0, A1) == {k \in AccountNames : A0[k] # A1[k]}

\* the last ROOTS_LEN entries of the sequence of pushed roots
LastPushed(s) == IF Len(s) > ROOTS_LEN THEN Tail(s) ELSE s

\* "Store root in history" / "Update roots history": the push of
\* pool.current_root that shield, deposit, unshield and private_transfer inline
push(A) == [A EXCEPT !.roots = push_root(@, A.pool.current_root), !.pushes = @ + 1, !.recent = LastPushed(Append(@, A.pool.current_root))]

\* the denomination check with a seventh amount let through
is_denomination_lax(amount) ==
    amount \in {DENOM_001_SOL, DENOM_001_SOL + 1, DENOM_005_SOL, DENOM_01_SOL,
                DENOM_1_SOL, DENOM_10_SOL, DENOM_100_SOL}

\* require!(withdrawal_amount == DENOM_001_SOL || ... || == DENOM_100_SOL)
is_denomination(amount) ==
    amount \in {DENOM_001_SOL, DENOM_005_SOL, DENOM_01_SOL,
                DENOM_1_SOL, DENOM_10_SOL, DENOM_100_SOL}

\* merkle_root == pool.current_root || roots.contains(&merkle_root)
root_valid(A, merkle_root) ==
    merkle_root = A.pool.current_root \/ contains(A.roots, merkle_root)

\* shield without the capacity check of lines 104-105
shield_no_capacity_check(A, commitment, amount, funded) ==
    IF ~(amount >= MIN_DEPOSIT) THEN Ret("AmountTooSmall", A)
    ELSE IF ~funded THEN Ret("TransferFailed", A)
    ELSE
    LET A1 == [A EXCEPT !.vault = @ + amount]
        leaf_index == A1.pool.next_index
        A2 == [A1 EXCEPT !.tree = insert_leaf(@, commitment, leaf_index, A1.pool.merkle_levels),
                          !.log = Append(@, [index |-> leaf_index, leaf |-> commitment])]
        A3 == [A2 EXCEPT !.pool.current_root = get_root(A2.tree)]
        ni == checked_add(A3.pool.next_index, 1)
        A4 == [A3 EXCEPT !.pool.next_index = ni]
        td == checked_add(A4.pool.total_deposits, amount)
        A5 == [A4 EXCEPT !.pool.total_deposits = td]
        ts == checked_add(A5.pool.total_shielded, amount)
        A6 == [A5 EXCEPT !.pool.total_shielded = ts]
        A7 == push(A6)
    IN IF insert_leaf_aborts(A1.tree, commitment, leaf_index, A1.pool.merkle_levels) THEN Ret("Panic", A1)
       ELSE IF ni = -1 THEN Ret("ArithmeticOverflow", A3)
       ELSE IF td = -1 THEN Ret("ArithmeticOverflow", A4)
       ELSE IF ts = -1 THEN Ret("ArithmeticOverflow", A5)
       ELSE Ret("Ok", A7)

\* shield taking the root before the insertion instead of after it
shield_stale_root(A, commitment, amount, funded) ==
    IF ~(amount >= MIN_DEPOSIT) THEN Ret("AmountTooSmall", A)
    ELSE IF ~(A.pool.next_index < 2 ^ A.pool.merkle_levels) THEN Ret("TreeFull", A)
    ELSE IF ~funded THEN Ret("TransferFailed", A)
    ELSE
    LET A1 == [A EXCEPT !.vault = @ + amount]
        leaf_index == A1.pool.next_index
        A2 == [A1 EXCEPT !.tree = insert_leaf(@, commitment, leaf_index, A1.pool.merkle_levels),
                          !.log = Append(@, [index |-> leaf_index, leaf |-> commitment])]
        A3 == [A2 EXCEPT !.pool.current_root = get_root(A1.tree)]
        ni == checked_add(A3.pool.next_index, 1)
        A4 == [A3 EXCEPT !.pool.next_index = ni]
        td == checked_add(A4.pool.total_deposits, amount)
        A5 == [A4 EXCEPT !.pool.total_deposits = td]
        ts == checked_add(A5.pool.total_shielded, amount)
        A6 == [A5 EXCEPT !.pool.total_shielded = ts]
        A7 == push(A6)
    IN IF insert_leaf_aborts(A1.tree, commitment, leaf_index, A1.pool.merkle_levels) THEN Ret("Panic", A1)
       ELSE IF ni = -1 THEN Ret("ArithmeticOverflow", A3)
       ELSE IF td = -1 THEN Ret("ArithmeticOverflow", A4)
       ELSE IF ts = -1 THEN Ret("ArithmeticOverflow", A5)
       ELSE Ret("Ok", A7)

\* shield(commitment, amount); `funded` is whether the depositor's transfer succeeds
shield(A, commitment, amount, funded) ==
    IF ~(amount >= MIN_DEPOSIT) THEN Ret("AmountTooSmall", A)
    ELSE IF ~(A.pool.next_index < 2 ^ A.pool.merkle_levels) THEN Ret("TreeFull", A)
    ELSE IF ~funded THEN Ret("TransferFailed", A)
    ELSE
    LET A1 == [A EXCEPT !.vault = @ + amount]
        leaf_index == A1.pool.next_index
        A2 == [A1 EXCEPT !.tree = insert_leaf(@, commitment, leaf_index, A1.pool.merkle_levels),
                          !.log = Append(@, [index |-> leaf_index, leaf |-> commitment])]
        A3 == [A2 EXCEPT !.pool.current_root = get_root(A2.tree)]
        ni == checked_add(A3.pool.next_index, 1)
        A4 == [A3 EXCEPT !.pool.next_index = ni]
        td == checked_add(A4.pool.total_deposits, amount)
        A5 == [A4 EXCEPT !.pool.total_deposits = td]
        ts == checked_add(A5.pool.total_shielded, amount)
        A6 == [A5 EXCEPT !.pool.total_shielded = ts]
        A7 == push(A6)
    IN IF insert_leaf_aborts(A1.tree, commitment, leaf_index, A1.pool.merkle_levels) THEN Ret("Panic", A1)
       ELSE IF ni = -1 THEN Ret("ArithmeticOverflow", A3)
       ELSE IF td = -1 THEN Ret("ArithmeticOverflow", A4)
       ELSE IF ts = -1 THEN Ret("ArithmeticOverflow", A5)
       ELSE Ret("Ok", A7)

\* deposit counting its amount in total_deposits only
deposit_not_shielded(A, commitment, amount, funded) ==
    LET r == shield(A, commitment, amount, funded)
    IN IF r.res = "Ok" THEN Ret("Ok", [r.acc EXCEPT !.pool.total_shielded = @ - amount]) ELSE r

\* deposit(commitment, amount): the legacy entry point, its own copy of the code
deposit(A, commitment, amount, funded) ==
    IF ~(amount >= MIN_DEPOSIT) THEN Ret("AmountTooSmall", A)
    ELSE IF ~(A.pool.next_index < 2 ^ A.pool.merkle_levels) THEN Ret("TreeFull", A)
    ELSE IF ~funded THEN Ret("TransferFailed", A)
    ELSE
    LET A1 == [A EXCEPT !.vault = @ + amount]
        leaf_index == A1.pool.next_index
        A2 == [A1 EXCEPT !.tree = insert_leaf(@, commitment, leaf_index, A1.pool.merkle_levels),
                          !.log = Append(@, [index |-> leaf_index, leaf |-> commitment])]
        A3 == [A2 EXCEPT !.pool.current_root = get_root(A2.tree)]
        ni == checked_add(A3.pool.next_index, 1)
        A4 == [A3 EXCEPT !.pool.next_index = ni]
        td == checked_add(A4.pool.total_deposits, amount)
        A5 == [A4 EXCEPT !.pool.total_deposits = td]
        ts == checked_add(A5.pool.total_shielded, amount)
        A6 == [A5 EXCEPT !.pool.total_shielded = ts]
        A7 == push(A6)
    IN IF insert_leaf_aborts(A1.tree, commitment, leaf_index, A1.pool.merkle_levels) THEN Ret("Panic", A1)
       ELSE IF ni = -1 THEN Ret("ArithmeticOverflow", A3)
       ELSE IF td = -1 THEN Ret("ArithmeticOverflow", A4)
       ELSE IF ts = -1 THEN Ret("ArithmeticOverflow", A5)
       ELSE Ret("Ok", A7)

\* The Groth16 verifiers of groth16.rs (verify_unshield_change_proof,
\* verify_withdraw_merkle_proof, verify_private_transfer_proof,
\* verify_withdraw_proof_groth16) return Ok(true), Ok(false) or an error;
\* `proof` is that outcome for the proof and the public inputs of the call.
ProofOutcomes == {"valid", "invalid", "error"}

\* Pubkeys as (first 31 bytes, last byte): the recipient a proof was made
\* for, a key that differs from it in the last byte only, and another key
BoundRecipient == << 1, 0 >>
TwinRecipient == << 1, 1 >>
OtherRecipient == << 2, 0 >>
RelayerKey == << 3, 0 >>

\* recipient_field[1..].copy_from_slice(&recipient_bytes[..31]): the field
\* element keeps the first 31 bytes of the key and drops the last one
recipient_field(recipient) == recipient[1]

\* The verifier's result for a proof made for BoundRecipient: `proof` when the
\* recipient public input is the field element of BoundRecipient, Ok(false)
\* for a proof that would be valid but is presented with another one.
verify_proof(proof, recipient_input) ==
    IF proof = "valid" /\ recipient_input # recipient_field(BoundRecipient)
    THEN "invalid" ELSE proof

\* the payout with the relayer's fee left in the vault
pay_out_keeps_fee(A, withdrawal_amount, relayer_fee, recipient_account) ==
    IF ~(A.vault >= withdrawal_amount) THEN Ret("InsufficientVaultBalance", A)
    ELSE
    LET withdrawal_net == checked_sub(withdrawal_amount, relayer_fee)
        A1 == [A EXCEPT !.vault = @ - withdrawal_net,
                         !.out = Append(@, [to |-> recipient_account, lamports |-> withdrawal_net])]
        ts == checked_sub(A1.pool.total_shielded, withdrawal_amount)
        A3 == [A1 EXCEPT !.pool.total_shielded = ts]
    IN IF withdrawal_net = -1 THEN Ret("ArithmeticOverflow", A)
       ELSE IF ts = -1 THEN Ret("ArithmeticOverflow", A1)
       ELSE Ret("Ok", A3)

\* the payout with the recipient paid the whole amount, the fee on top of it
pay_out_gross(A, withdrawal_amount, relayer_fee, recipient_account) ==
    IF ~(A.vault >= withdrawal_amount) THEN Ret("InsufficientVaultBalance", A)
    ELSE
    LET withdrawal_net == checked_sub(withdrawal_amount, relayer_fee)
        A1 == [A EXCEPT !.vault = @ - withdrawal_amount,
                         !.out = Append(@, [to |-> recipient_account, lamports |-> withdrawal_amount])]
        A2 == IF relayer_fee > 0
              THEN [A1 EXCEPT !.vault = @ - relayer_fee,
                              !.out = Append(@, [to |-> RelayerKey, lamports |-> relayer_fee])]
              ELSE A1
        ts == checked_sub(A2.pool.total_shielded, withdrawal_amount)
        A3 == [A2 EXCEPT !.pool.total_shielded = ts]
    IN IF withdrawal_net = -1 THEN Ret("ArithmeticOverflow", A)
       ELSE IF ts = -1 THEN Ret("ArithmeticOverflow", A2)
       ELSE Ret("Ok", A3)

\* the tail shared by unshield and withdraw: balance check, payout, accounting
\* (lines 250-295 of unshield, 509-552 of withdraw)
pay_out(A, withdrawal_amount, relayer_fee, recipient_account) ==
    IF ~(A.vault >= withdrawal_amount) THEN Ret("InsufficientVaultBalance", A)
    ELSE
    LET withdrawal_net == checked_sub(withdrawal_amount, relayer_fee)
        A1 == [A EXCEPT !.vault = @ - withdrawal_net,
                         !.out = Append(@, [to |-> recipient_account, lamports |-> withdrawal_net])]
        A2 == IF relayer_fee > 0
              THEN [A1 EXCEPT !.vault = @ - relayer_fee,
                              !.out = Append(@, [to |-> RelayerKey, lamports |-> relayer_fee])]
              ELSE A1
        ts == checked_sub(A2.pool.total_shielded, withdrawal_amount)
        A3 == [A2 EXCEPT !.pool.total_shielded = ts]
    IN IF withdrawal_net = -1 THEN Ret("ArithmeticOverflow", A)
       ELSE IF ts = -1 THEN Ret("ArithmeticOverflow", A2)
       ELSE Ret("Ok", A3)

\* the change branch without the increment of next_index
insert_change_no_increment(A, change_commitment) ==
    IF ~(A.pool.next_index < 2 ^ A.pool.merkle_levels) THEN Ret("TreeFull", A)
    ELSE
    LET change_index == A.pool.next_index
        A1 == [A EXCEPT !.tree = insert_leaf(@, change_commitment, change_index, A.pool.merkle_levels),
                         !.log = Append(@, [index |-> change_index, leaf |-> change_commitment])]
        A2 == [A1 EXCEPT !.pool.current_root = get_root(A1.tree)]
        A4 == push(A2)
    IN Ret("Ok", A4)

\* the change branch of unshield (lines 222-248)
insert_change(A, change_commitment) ==
    IF ~(A.pool.next_index < 2 ^ A.pool.merkle_levels) THEN Ret("TreeFull", A)
    ELSE
    LET change_index == A.pool.next_index
        A1 == [A EXCEPT !.tree = insert_leaf(@, change_commitment, change_index, A.pool.merkle_levels),
                         !.log = Append(@, [index |-> change_index, leaf |-> change_commitment])]
        A2 == [A1 EXCEPT !.pool.current_root = get_root(A1.tree)]
        ni == checked_add(A2.pool.next_index, 1)
        A3 == [A2 EXCEPT !.pool.next_index = ni]
        A4 == push(A3)
    IN IF insert_leaf_aborts(A.tree, change_commitment, change_index, A.pool.merkle_levels) THEN Ret("Panic", A)
       ELSE IF ni = -1 THEN Ret("ArithmeticOverflow", A2) ELSE Ret("Ok", A4)

\* unshield with the nullifier marked before the proof is verified
unshield_marks_first(A, proof, nullifier_hash, recipient, withdrawal_amount, relayer_fee, merkle_root, change_commitment, recipient_account) ==
    IF ~is_denomination(withdrawal_amount) THEN Ret("InvalidWithdrawDenomination", A)
    ELSE IF ~(relayer_fee <= withdrawal_amount \div 10) THEN Ret("FeeTooHigh", A)
    ELSE IF is_spent(A.nulls, nullifier_hash) THEN Ret("NullifierAlreadyUsed", A)
    ELSE IF ~root_valid(A, merkle_root) THEN Ret("InvalidMerkleRoot", A)
    ELSE IF mark_spent_full(A.nulls) THEN Ret("NullifierSetFull", A)
    ELSE
    LET A1 == [A EXCEPT !.nulls = mark_spent(@, nullifier_hash)]
        has_change == change_commitment # Z
        c == IF has_change THEN insert_change(A1, change_commitment) ELSE Ret("Ok", A1)
    IN IF verify_proof(proof, recipient_field(recipient)) = "error" THEN Ret("VerifierError", A1)
       ELSE IF verify_proof(proof, recipient_field(recipient)) # "valid" THEN Ret("InvalidProof", A1)
       ELSE IF c.res # "Ok" THEN c ELSE pay_out(c.acc, withdrawal_amount, relayer_fee, recipient_account)

\* unshield(proof, nullifier_hash, recipient, withdrawal_amount, relayer_fee,
\*          merkle_root, change_commitment)
unshield(A, proof, nullifier_hash, recipient, withdrawal_amount, relayer_fee, merkle_root, change_commitment, recipient_account) ==
    IF ~is_denomination(withdrawal_amount) THEN Ret("InvalidWithdrawDenomination", A)
    ELSE IF ~(relayer_fee <= withdrawal_amount \div 10) THEN Ret("FeeTooHigh", A)
    ELSE IF is_spent(A.nulls, nullifier_hash) THEN Ret("NullifierAlreadyUsed", A)
    ELSE IF ~root_valid(A, merkle_root) THEN Ret("InvalidMerkleRoot", A)
    ELSE IF verify_proof(proof, recipient_field(recipient)) = "error" THEN Ret("VerifierError", A)
    ELSE IF verify_proof(proof, recipient_field(recipient)) # "valid" THEN Ret("InvalidProof", A)
    ELSE IF mark_spent_full(A.nulls) THEN Ret("NullifierSetFull", A)
    ELSE
    LET A1 == [A EXCEPT !.nulls = mark_spent(@, nullifier_hash)]
        has_change == change_commitment # Z
        c == IF has_change THEN insert_change(A1, change_commitment) ELSE Ret("Ok", A1)
    IN IF c.res # "Ok" THEN c ELSE pay_out(c.acc, withdrawal_amount, relayer_fee, recipient_account)

\* withdraw with the fee allowed up to the whole amount
withdraw_fee_up_to_amount(A, proof, nullifier_hash, recipient, amount, relayer_fee, merkle_root, recipient_account) ==
    IF ~is_denomination(amount) THEN Ret("InvalidWithdrawDenomination", A)
    ELSE IF ~(relayer_fee <= amount) THEN Ret("FeeTooHigh", A)
    ELSE IF is_spent(A.nulls, nullifier_hash) THEN Ret("NullifierAlreadyUsed", A)
    ELSE IF ~root_valid(A, merkle_root) THEN Ret("InvalidMerkleRoot", A)
    ELSE IF verify_proof(proof, recipient_field(recipient)) = "error" THEN Ret("VerifierError", A)
    ELSE IF verify_proof(proof, recipient_field(recipient)) # "valid" THEN Ret("InvalidProof", A)
    ELSE IF mark_spent_full(A.nulls) THEN Ret("NullifierSetFull", A)
    ELSE pay_out([A EXCEPT !.nulls = mark_spent(@, nullifier_hash)], amount, relayer_fee, recipient_account)

\* withdraw checking the root before the nullifier
withdraw_root_first(A, proof, nullifier_hash, recipient, amount, relayer_fee, merkle_root, recipient_account) ==
    IF ~is_denomination(amount) THEN Ret("InvalidWithdrawDenomination", A)
    ELSE IF ~(relayer_fee <= amount \div 10) THEN Ret("FeeTooHigh", A)
    ELSE IF ~root_valid(A, merkle_root) THEN Ret("InvalidMerkleRoot", A)
    ELSE IF is_spent(A.nulls, nullifier_hash) THEN Ret("NullifierAlreadyUsed", A)
    ELSE IF verify_proof(proof, recipient_field(recipient)) = "error" THEN Ret("VerifierError", A)
    ELSE IF verify_proof(proof, recipient_field(recipient)) # "valid" THEN Ret("InvalidProof", A)
    ELSE IF mark_spent_full(A.nulls) THEN Ret("NullifierSetFull", A)
    ELSE pay_out([A EXCEPT !.nulls = mark_spent(@, nullifier_hash)], amount, relayer_fee, recipient_account)

\* withdraw(proof, nullifier_hash, recipient, amount, relayer_fee, merkle_root)
withdraw(A, proof, nullifier_hash, recipient, amount, relayer_fee, merkle_root, recipient_account) ==
    IF ~is_denomination(amount) THEN Ret("InvalidWithdrawDenomination", A)
    ELSE IF ~(relayer_fee <= amount \div 10) THEN Ret("FeeTooHigh", A)
    ELSE IF is_spent(A.nulls, nullifier_hash) THEN Ret("NullifierAlreadyUsed", A)
    ELSE IF ~root_valid(A, merkle_root) THEN Ret("InvalidMerkleRoot", A)
    ELSE IF verify_proof(proof, recipient_field(recipient)) = "error" THEN Ret("VerifierError", A)
    ELSE IF verify_proof(proof, recipient_field(recipient)) # "valid" THEN Ret("InvalidProof", A)
    ELSE IF mark_spent_full(A.nulls) THEN Ret("NullifierSetFull", A)
    ELSE pay_out([A EXCEPT !.nulls = mark_spent(@, nullifier_hash)], amount, relayer_fee, recipient_account)

\* withdraw_zk pushing the current root into the history when it succeeds
withdraw_zk_pushes_root(A, proof, commitment, nullifier_hash, recipient, amount, relayer_fee, merkle_root, recipient_account) ==
    IF ~is_denomination(amount) THEN Ret("InvalidWithdrawDenomination", A)
    ELSE IF ~(relayer_fee <= amount \div 10) THEN Ret("FeeTooHigh", A)
    ELSE IF ~root_valid(A, merkle_root) THEN Ret("InvalidMerkleRoot", A)
    ELSE IF is_spent(A.nulls, nullifier_hash) THEN Ret("NullifierAlreadyUsed", A)
    ELSE IF ~(A.vault >= amount) THEN Ret("InsufficientVaultBalance", A)
    ELSE IF verify_proof(proof, recipient_field(recipient)) = "error" THEN Ret("VerifierError", A)
    ELSE IF verify_proof(proof, recipient_field(recipient)) # "valid" THEN Ret("InvalidProof", A)
    ELSE IF mark_spent_full(A.nulls) THEN Ret("NullifierSetFull", A)
    ELSE
    LET A1 == [A EXCEPT !.nulls = mark_spent(@, nullifier_hash)]
        withdrawal_net == checked_sub(amount, relayer_fee)
        A2 == [A1 EXCEPT !.vault = @ - withdrawal_net,
                          !.out = Append(@, [to |-> recipient, lamports |-> withdrawal_net])]
        A3 == IF relayer_fee > 0
              THEN [A2 EXCEPT !.vault = @ - relayer_fee,
                              !.out = Append(@, [to |-> RelayerKey, lamports |-> relayer_fee])]
              ELSE A2
        ts == checked_sub(A3.pool.total_shielded, amount)
        A4 == [A3 EXCEPT !.pool.total_shielded = ts]
    IN IF withdrawal_net = -1 THEN Ret("ArithmeticOverflow", A1)
       \* the transfer names `recipient`; the only account handed to it is
       \* ctx.accounts.recipient, and the invoke fails if that is another key
       ELSE IF recipient # recipient_account THEN Ret("TransferFailed", A1)
       ELSE IF ts = -1 THEN Ret("ArithmeticOverflow", A3)
       ELSE Ret("Ok", push(A4))

\* withdraw_zk(proof, commitment, nullifier_hash, recipient, amount, relayer_fee, merkle_root)
withdraw_zk(A, proof, commitment, nullifier_hash, recipient, amount, relayer_fee, merkle_root, recipient_account) ==
    IF ~is_denomination(amount) THEN Ret("InvalidWithdrawDenomination", A)
    ELSE IF ~(relayer_fee <= amount \div 10) THEN Ret("FeeTooHigh", A)
    ELSE IF ~root_valid(A, merkle_root) THEN Ret("InvalidMerkleRoot", A)
    ELSE IF is_spent(A.nulls, nullifier_hash) THEN Ret("NullifierAlreadyUsed", A)
    ELSE IF ~(A.vault >= amount) THEN Ret("InsufficientVaultBalance", A)
    ELSE IF verify_proof(proof, recipient_field(recipient)) = "error" THEN Ret("VerifierError", A)
    ELSE IF verify_proof(proof, recipient_field(recipient)) # "valid" THEN Ret("InvalidProof", A)
    ELSE IF mark_spent_full(A.nulls) THEN Ret("NullifierSetFull", A)
    ELSE
    LET A1 == [A EXCEPT !.nulls = mark_spent(@, nullifier_hash)]
        withdrawal_net == checked_sub(amount, relayer_fee)
        A2 == [A1 EXCEPT !.vault = @ - withdrawal_net,
                          !.out = Append(@, [to |-> recipient, lamports |-> withdrawal_net])]
        A3 == IF relayer_fee > 0
              THEN [A2 EXCEPT !.vault = @ - relayer_fee,
                              !.out = Append(@, [to |-> RelayerKey, lamports |-> relayer_fee])]
              ELSE A2
        ts == checked_sub(A3.pool.total_shielded, amount)
        A4 == [A3 EXCEPT !.pool.total_shielded = ts]
    IN IF withdrawal_net = -1 THEN Ret("ArithmeticOverflow", A1)
       \* the transfer names `recipient`; the only account handed to it is
       \* ctx.accounts.recipient, and the invoke fails if that is another key
       ELSE IF recipient # recipient_account THEN Ret("TransferFailed", A1)
       ELSE IF ts = -1 THEN Ret("ArithmeticOverflow", A3)
       ELSE Ret("Ok", A4)

\* the two loops of private_transfer over input_nullifier_hashes (lines 331-338, 353-357)
any_input_spent(ns, ins) == \E i \in 1 .. 2 : ins[i] # Z /\ is_spent(ns, ins[i])

RECURSIVE mark_inputs(_, _, _)
mark_inputs(A, ins, i) ==
    IF i > 2 THEN Ret("Ok", A)
    ELSE IF ins[i] # Z
         THEN IF mark_spent_full(A.nulls) THEN Ret("NullifierSetFull", A)
              ELSE mark_inputs([A EXCEPT !.nulls = mark_spent(@, ins[i])], ins, i + 1)
         ELSE mark_inputs(A, ins, i + 1)

\* the loop of private_transfer over output_commitments (lines 364-380)
RECURSIVE insert_outputs(_, _, _)
insert_outputs(A, outs, i) ==
    IF i > 2 THEN Ret("Ok", A)
    ELSE IF outs[i] # Z
         THEN IF ~(A.pool.next_index < 2 ^ A.pool.merkle_levels) THEN Ret("TreeFull", A)
              ELSE LET leaf_index == A.pool.next_index
                       A1 == [A EXCEPT !.tree = insert_leaf(@, outs[i], leaf_index, A.pool.merkle_levels),
                                       !.log = Append(@, [index |-> leaf_index, leaf |-> outs[i]])]
                       ni == checked_add(A1.pool.next_index, 1)
                   IN IF insert_leaf_aborts(A.tree, outs[i], leaf_index, A.pool.merkle_levels) THEN Ret("Panic", A)
                      ELSE IF ni = -1 THEN Ret("ArithmeticOverflow", A1)
                      ELSE insert_outputs([A1 EXCEPT !.pool.next_index = ni], outs, i + 1)
         ELSE insert_outputs(A, outs, i + 1)

\* private_transfer inserting its second output before its first
private_transfer_outputs_reversed(A, proof, input_nullifier_hashes, output_commitments, merkle_root) ==
    IF ~root_valid(A, merkle_root) THEN Ret("InvalidMerkleRoot", A)
    ELSE IF any_input_spent(A.nulls, input_nullifier_hashes) THEN Ret("NullifierAlreadyUsed", A)
    ELSE IF proof = "error" THEN Ret("VerifierError", A)
    ELSE IF proof # "valid" THEN Ret("InvalidProof", A)
    ELSE
    LET m == mark_inputs(A, input_nullifier_hashes, 1)
        o == insert_outputs(m.acc, << output_commitments[2], output_commitments[1] >>, 1)
        A1 == [o.acc EXCEPT !.pool.current_root = get_root(o.acc.tree)]
        A2 == push(A1)
    IN IF m.res # "Ok" THEN m
       ELSE IF o.res # "Ok" THEN o
       ELSE Ret("Ok", A2)

\* private_transfer(proof, input_nullifier_hashes, output_commitments, merkle_root)
private_transfer(A, proof, input_nullifier_hashes, output_commitments, merkle_root) ==
    IF ~root_valid(A, merkle_root) THEN Ret("InvalidMerkleRoot", A)
    ELSE IF any_input_spent(A.nulls, input_nullifier_hashes) THEN Ret("NullifierAlreadyUsed", A)
    ELSE IF proof = "error" THEN Ret("VerifierError", A)
    ELSE IF proof # "valid" THEN Ret("InvalidProof", A)
    ELSE
    LET m == mark_inputs(A, input_nullifier_hashes, 1)
        o == insert_outputs(m.acc, output_commitments, 1)
        A1 == [o.acc EXCEPT !.pool.current_root = get_root(o.acc.tree)]
        A2 == push(A1)
    IN IF m.res # "Ok" THEN m
       ELSE IF o.res # "Ok" THEN o
       ELSE Ret("Ok", A2)

\* ---------------------------------------------------------------- state
\* the 32-byte values callers submit as commitments and nullifier hashes:
\* the all-zero value and a non-zero one
Values == {Z, Val(1)}

ZeroNodes == [i \in 0 .. NodesLen - 1 |-> Z]
ZeroRoots == [current_index |-> 0, roots |-> [i \in 0 .. ROOTS_LEN - 1 |-> Z]]
ZeroNullifiers == [count |-> 0, nullifiers |-> [i \in 0 .. NULLIFIER_CAP - 1 |-> Z]]
ZeroPool ==
    [merkle_levels |-> 0, next_index |-> 0, current_root |-> Z,
     total_deposits |-> 0, total_shielded |-> 0]

\* the arguments of a call that are amounts and commitments (0 and Z where the
\* instruction has none)
NoArgs ==
    [amount |-> 0, fee |-> 0, commitment |-> Z, ins |-> << Z, Z >>, outs |-> << Z, Z >>,
     levels |-> 0, recipient |-> BoundRecipient, recipient_account |-> BoundRecipient]

NoCall ==
    [op |-> "none", res |-> "none", written |-> {}, proof |-> "none",
     nh |-> {}, root_ok |-> TRUE, pre_ok |-> TRUE, args |-> NoArgs, transfers |-> << >>]

\* Before initialize: no account exists; account data is zeroed when created.
Init ==
    /\ created = {}
    /\ pool = ZeroPool
    /\ merkle_tree = ZeroNodes
    /\ roots_history = ZeroRoots
    /\ nullifiers = ZeroNullifiers
    /\ pool_vault = 0
    /\ last = NoCall
    /\ hist = [leaf_log |-> << >>, pushes |-> 0, recent |-> << >>, root_at |-> << >>,
               spends |-> [v \in Values |-> 0], deposited |-> 0, withdrawn |-> 0]

\* An instruction that returns Err aborts the transaction and the runtime
\* discards every account write it made; one that returns Ok commits them.
Commit(call, r) ==
    LET A0 == Accounts
        A1 == IF r.res = "Ok" THEN r.acc ELSE A0
    IN /\ pool' = A1.pool
       /\ merkle_tree' = A1.tree
       /\ roots_history' = A1.roots
       /\ nullifiers' = A1.nulls
       /\ pool_vault' = A1.vault
       /\ last' = [call EXCEPT !.res = r.res, !.written = Written(A0, r.acc),
                                !.transfers = A1.out]
       /\ hist' =
            IF r.res # "Ok" THEN hist
            ELSE [leaf_log |-> A1.log,
                  pushes |-> A1.pushes,
                  recent |-> A1.recent,
                  root_at |-> (A1.pool.next_index :> A1.pool.current_root) @@ hist.root_at,
                  spends |-> [v \in Values |->
                                IF call.op \in {"unshield", "withdraw", "withdraw_zk", "private_transfer"}
                                   /\ v \in call.nh
                                THEN Min(hist.spends[v] + 1, 2) ELSE hist.spends[v]],
                  deposited |-> hist.deposited
                      + (IF call.op \in {"shield", "deposit"} THEN call.args.amount ELSE 0),
                  withdrawn |-> hist.withdrawn
                      + (IF call.op \in {"unshield", "withdraw", "withdraw_zk"}
                         THEN call.args.amount ELSE 0)]
       /\ UNCHANGED created

\* ------------------------------------------------------------- actions
Spends == {"unshield", "withdraw", "withdraw_zk", "private_transfer"}

\* initialize with the lower limit of the range one too low
Initialize_low_limit(merkle_levels) ==
    /\ "pool" \notin created
    /\ IF merkle_levels >= MIN_LEVELS - 1 /\ merkle_levels <= MAX_LEVELS
       THEN /\ created' = created \cup {"pool"}
            /\ pool' = [merkle_levels |-> merkle_levels, next_index |-> 0,
                        current_root |-> Z, total_deposits |-> 0, total_shielded |-> 0]
            /\ last' = [NoCall EXCEPT !.op = "initialize", !.res = "Ok", !.written = {"pool"},
                                      !.args.levels = merkle_levels]
            /\ hist' = [hist EXCEPT !.root_at = (0 :> Z)]
       ELSE /\ last' = [NoCall EXCEPT !.op = "initialize", !.res = "InvalidMerkleLevels",
                                      !.args.levels = merkle_levels]
            /\ UNCHANGED << created, pool, hist >>
    /\ UNCHANGED << merkle_tree, roots_history, nullifiers, pool_vault >>

\* initialize(merkle_levels): Anchor's `init` creates the pool account once
Initialize(merkle_levels) ==
    /\ "pool" \notin created
    /\ IF merkle_levels >= MIN_LEVELS /\ merkle_levels <= MAX_LEVELS
       THEN /\ created' = created \cup {"pool"}
            /\ pool' = [merkle_levels |-> merkle_levels, next_index |-> 0,
                        current_root |-> Z, total_deposits |-> 0, total_shielded |-> 0]
            /\ last' = [NoCall EXCEPT !.op = "initialize", !.res = "Ok", !.written = {"pool"},
                                      !.args.levels = merkle_levels]
            /\ hist' = [hist EXCEPT !.root_at = (0 :> Z)]
       ELSE /\ last' = [NoCall EXCEPT !.op = "initialize", !.res = "InvalidMerkleLevels",
                                      !.args.levels = merkle_levels]
            /\ UNCHANGED << created, pool, hist >>
    /\ UNCHANGED << merkle_tree, roots_history, nullifiers, pool_vault >>

\* init_merkle: creates the zeroed tree account (levels_used is never read)
InitMerkle ==
    /\ "pool" \in created /\ "merkle_tree" \notin created
    /\ created' = created \cup {"merkle_tree"}
    /\ merkle_tree' = ZeroNodes
    /\ last' = [NoCall EXCEPT !.op = "init_merkle", !.res = "Ok"]
    /\ UNCHANGED << pool, roots_history, nullifiers, pool_vault, hist >>

\* init_roots: creates the zeroed history, current_index = 0
InitRoots ==
    /\ "pool" \in created /\ "roots_history" \notin created
    /\ created' = created \cup {"roots_history"}
    /\ roots_history' = [ZeroRoots EXCEPT !.current_index = 0]
    /\ last' = [NoCall EXCEPT !.op = "init_roots", !.res = "Ok"]
    /\ UNCHANGED << pool, merkle_tree, nullifiers, pool_vault, hist >>

\* init_nullifiers: creates the zeroed set, count = 0
InitNullifiers ==
    /\ "pool" \in created /\ "nullifiers" \notin created
    /\ created' = created \cup {"nullifiers"}
    /\ nullifiers' = [ZeroNullifiers EXCEPT !.count = 0]
    /\ last' = [NoCall EXCEPT !.op = "init_nullifiers", !.res = "Ok"]
    /\ UNCHANGED << pool, merkle_tree, roots_history, pool_vault, hist >>

\* the accounts of the Shield / Unshield / PrivateTransfer / WithdrawZk contexts
ShieldAccounts == {"pool", "merkle_tree", "roots_history"}
UnshieldAccounts == {"pool", "merkle_tree", "nullifiers", "roots_history"}
WithdrawZkAccounts == {"pool", "nullifiers", "roots_history"}

\* ------------------------------------------------------------- inputs
\* What the callers submit. The baseline spend carries a valid proof, a
\* denomination, the largest admissible fee and the current root; the
\* submitted spends are the baseline, every spend that departs from it in one
\* argument, and the spend that departs from it in all of them. Nullifier
\* hashes, commitments and the transfer's inputs and outputs are unrestricted.
ShieldAmounts == {MIN_DEPOSIT - 1, MIN_DEPOSIT}
WithdrawAmounts == {DENOM_001_SOL, DENOM_001_SOL + 1, DENOM_005_SOL}
MaxFee == DENOM_001_SOL \div 10
Fees == {0, MaxFee, MaxFee + 1, DENOM_001_SOL}
\* a value that never is a root (roots are Z or hashes)
BogusRoot == Val(2)
\* roots a caller may present: the current one, every earlier one, a bogus one
RootChoices == {hist.root_at[i] : i \in DOMAIN hist.root_at} \cup {BogusRoot}

Departures(p, a, f, r) ==
    (IF p # "valid" THEN 1 ELSE 0) + (IF a # DENOM_001_SOL THEN 1 ELSE 0)
    + (IF f # MaxFee THEN 1 ELSE 0) + (IF r # pool.current_root THEN 1 ELSE 0)

SpendInputs ==
    {x \in ProofOutcomes \X WithdrawAmounts \X Fees \X RootChoices :
        \/ Departures(x[1], x[2], x[3], x[4]) <= 1
        \/ x = << "invalid", DENOM_001_SOL + 1, MaxFee + 1, BogusRoot >>}

\* the recipient argument and the recipient account of a withdrawal: the
\* recipient the proof was made for, as argument and account; that argument
\* with another account; the twin key; another key
HonestRecipient == << BoundRecipient, BoundRecipient >>
RecipientChoices ==
    {HonestRecipient, << BoundRecipient, OtherRecipient >>,
     << TwinRecipient, TwinRecipient >>, << OtherRecipient, OtherRecipient >>}

\* a withdrawal departs from the baseline in its recipient or in an argument
\* of SpendInputs, not in both
WithdrawalInputs ==
    {y \in SpendInputs \X RecipientChoices :
        y[2] = HonestRecipient \/ Departures(y[1][1], y[1][2], y[1][3], y[1][4]) = 0}

TransferInputs ==
    {x \in ProofOutcomes \X RootChoices :
        \/ Departures(x[1], DENOM_001_SOL, MaxFee, x[2]) <= 1
        \/ x = << "invalid", BogusRoot >>}

\* what `last` keeps of a call: the verifier's outcome for its proof, the
\* nullifier hashes it carries, whether its root passes the root check,
\* whether its amount and fee pass the denomination and fee checks, its
\* amounts, commitments and recipient, and (once committed) the transfers it
\* made out of the vault
Call(op, proof, nh, root, pre_ok, args) ==
    [op |-> op, res |-> "none", written |-> {}, proof |-> proof,
     nh |-> nh, root_ok |-> root_valid(Accounts, root), pre_ok |-> pre_ok, args |-> args,
     transfers |-> << >>]

Shield(commitment, amount, funded) ==
    /\ ShieldAccounts \subseteq created
    /\ Commit(Call("shield", "none", {}, pool.current_root, TRUE,
                   [NoArgs EXCEPT !.amount = amount, !.commitment = commitment]),
              shield(Accounts, commitment, amount, funded))

Deposit(commitment, amount, funded) ==
    /\ ShieldAccounts \subseteq created
    /\ Commit(Call("deposit", "none", {}, pool.current_root, TRUE,
                   [NoArgs EXCEPT !.amount = amount, !.commitment = commitment]),
              deposit(Accounts, commitment, amount, funded))

Unshield(proof, nullifier_hash, rc, amount, fee, merkle_root, change) ==
    /\ UnshieldAccounts \subseteq created
    /\ Commit(Call("unshield", verify_proof(proof, recipient_field(rc[1])),
                   {nullifier_hash}, merkle_root,
                   is_denomination(amount) /\ fee <= amount \div 10,
                   [NoArgs EXCEPT !.amount = amount, !.fee = fee, !.commitment = change,
                                  !.recipient = rc[1], !.recipient_account = rc[2]]),
              unshield(Accounts, proof, nullifier_hash, rc[1], amount, fee, merkle_root,
                       change, rc[2]))

Withdraw(proof, nullifier_hash, rc, amount, fee, merkle_root) ==
    /\ UnshieldAccounts \subseteq created
    /\ Commit(Call("withdraw", verify_proof(proof, recipient_field(rc[1])),
                   {nullifier_hash}, merkle_root,
                   is_denomination(amount) /\ fee <= amount \div 10,
                   [NoArgs EXCEPT !.amount = amount, !.fee = fee,
                                  !.recipient = rc[1], !.recipient_account = rc[2]]),
              withdraw(Accounts, proof, nullifier_hash, rc[1], amount, fee, merkle_root, rc[2]))

WithdrawZk(proof, commitment, nullifier_hash, rc, amount, fee, merkle_root) ==
    /\ WithdrawZkAccounts \subseteq created
    /\ Commit(Call("withdraw_zk", verify_proof(proof, recipient_field(rc[1])),
                   {nullifier_hash}, merkle_root,
                   is_denomination(amount) /\ fee <= amount \div 10,
                   [NoArgs EXCEPT !.amount = amount, !.fee = fee, !.commitment = commitment,
                                  !.recipient = rc[1], !.recipient_account = rc[2]]),
              withdraw_zk(Accounts, proof, commitment, nullifier_hash, rc[1], amount, fee,
                          merkle_root, rc[2]))

PrivateTransfer(proof, ins, outs, merkle_root) ==
    /\ UnshieldAccounts \subseteq created
    /\ hist.pushes < MaxPushes
    /\ Commit(Call("private_transfer", proof, {ins[i] : i \in 1 .. 2} \ {Z}, merkle_root, TRUE,
                   [NoArgs EXCEPT !.ins = ins, !.outs = outs]),
              private_transfer(Accounts, proof, ins, outs, merkle_root))

\* `last` is an observation of the latest instruction, read by no handler;
\* Forget discards it before the next instruction is taken.
Forget ==
    /\ last.op # "none"
    /\ last' = NoCall
    /\ UNCHANGED << created, pool, merkle_tree, roots_history, nullifiers, pool_vault, hist >>

\* the instructions
Instruction ==
    \/ \E l \in (MIN_LEVELS - 1) .. (MAX_LEVELS + 1) : Initialize(l)
    \/ InitMerkle
    \/ InitRoots
    \/ InitNullifiers
    \/ \E c \in Values, a \in ShieldAmounts, f \in BOOLEAN : Shield(c, a, f)
    \/ \E c \in Values, a \in ShieldAmounts, f \in BOOLEAN : Deposit(c, a, f)
    \/ \E y \in WithdrawalInputs, n \in Values, c \in Values :
          Unshield(y[1][1], n, y[2], y[1][2], y[1][3], y[1][4], c)
    \/ \E y \in WithdrawalInputs, n \in Values :
          Withdraw(y[1][1], n, y[2], y[1][2], y[1][3], y[1][4])
    \/ \E y \in WithdrawalInputs, n \in Values, c \in Values :
          WithdrawZk(y[1][1], c, n, y[2], y[1][2], y[1][3], y[1][4])
    \/ \E x \in TransferInputs, i \in Values \X Values, o \in Values \X Values :
          PrivateTransfer(x[1], i, o, x[2])

Next ==
    \/ last.op = "none" /\ Instruction
    \/ Forget

Spec == Init /\ [][Next]_vars

\* The vault is a system account at a known address: anyone can transfer
\* lamports to it outside the program. InitFunded is Init with one denomination
\* sent to the vault before the pool is created.
InitFunded ==
    /\ created = {}
    /\ pool = ZeroPool
    /\ merkle_tree = ZeroNodes
    /\ roots_history = ZeroRoots
    /\ nullifiers = ZeroNullifiers
    /\ pool_vault = DENOM_001_SOL
    /\ last = NoCall
    /\ hist = [leaf_log |-> << >>, pushes |-> 0, recent |-> << >>, root_at |-> << >>,
               spends |-> [v \in Values |-> 0], deposited |-> 0, withdrawn |-> 0]

SpecFunded == InitFunded /\ [][Next]_vars

\* =================================================================== claims

\* C1 (verify before mutate): a call of unshield, withdraw, withdraw_zk or
\* private_transfer whose proof the verifier rejects (Ok(false) or an error)
\* fails, and has written nothing when it returns: next_index, current_root,
\* the Merkle nodes, the root history and its cursor, the nullifier array and
\* its count, total_deposits and total_shielded (and the vault) are as before.
C1_VerifyBeforeMutate ==
    (last.op \in Spends /\ last.proof \in {"invalid", "error"})
        => (last.res # "Ok" /\ last.written = {})

\* an unshield whose every earlier check passed and whose proof was rejected
C1_Witness == last.op = "unshield" /\ last.res = "InvalidProof" /\ nullifiers.count > 0

\* successful spends with nullifier hash n before the call `last` describes
SpendsBefore(n) == hist.spends[n] - (IF last.res = "Ok" THEN 1 ELSE 0)

\* does the call `last` describes carry a nullifier hash spent successfully before it
CarriesSpent == last.op \in Spends /\ \E n \in last.nh : SpendsBefore(n) >= 1

\* C2 as stated: once a spend has succeeded with nullifier hash n, every later
\* spend carrying n is rejected with NullifierAlreadyUsed.
C2_Original == CarriesSpent => last.res = "NullifierAlreadyUsed"

\* C2 as amended: once a spend has succeeded with nullifier hash n, no later
\* spend carrying n succeeds, so at most one spend of n ever succeeds; the
\* error is NullifierAlreadyUsed whenever the call passes the checks its
\* handler makes before the nullifier check (denomination and fee in unshield,
\* withdraw and withdraw_zk; the root check in withdraw_zk and
\* private_transfer), whatever its proof.
C2_NoDoubleSpend ==
    /\ \A n \in Values : hist.spends[n] <= 1
    /\ CarriesSpent =>
         /\ last.res # "Ok"
         /\ (last.pre_ok /\ (last.op \in {"withdraw_zk", "private_transfer"} => last.root_ok))
              => last.res = "NullifierAlreadyUsed"

\* a second spend of a spent nullifier hash, with a valid proof and a valid root
C2_Witness ==
    /\ CarriesSpent /\ last.proof = "valid" /\ last.root_ok /\ last.pre_ok
    /\ last.res = "NullifierAlreadyUsed"

\* C3 as stated: the recorded entries nullifiers[0..count) are pairwise distinct.
C3_Original ==
    \A i, j \in 0 .. nullifiers.count - 1 :
        i # j => nullifiers.nullifiers[i] # nullifiers.nullifiers[j]

LeafLogInOrder ==
    \A i \in 1 .. Len(hist.leaf_log) : hist.leaf_log[i].index = i - 1

\* C5 (append monotonicity): the leaf indices assigned to inserted commitments
\* by shield, deposit, the change of unshield and the outputs of
\* private_transfer are 0, 1, 2, ... in commit order, so none is assigned
\* twice, and next_index never decreases.
C5_AppendMonotonicity ==
    /\ [](LeafLogInOrder /\ pool.next_index = Len(hist.leaf_log))
    /\ [][pool'.next_index >= pool.next_index]_vars

\* an unshield has inserted its change commitment after two earlier leaves
C5_Witness ==
    /\ last.op = "unshield" /\ last.res = "Ok" /\ "tree" \in last.written
    /\ Len(hist.leaf_log) >= 3

\* C6 as stated, with ROOTS_LEN for the capacity: a root that was current k
\* leaf insertions ago passes the root check of a spend if k < ROOTS_LEN and
\* fails it if k >= ROOTS_LEN.
C6_Original ==
    \A i \in DOMAIN hist.root_at :
        LET k == pool.next_index - i
        IN /\ k < ROOTS_LEN => root_valid(Accounts, hist.root_at[i])
           /\ k >= ROOTS_LEN => ~root_valid(Accounts, hist.root_at[i])

\* C7: between operations current_root is the initial all-zero root with no
\* push made yet, or the slot written by the latest push,
\* roots[(current_index + ROOTS_LEN - 1) mod ROOTS_LEN].
C7_RootInStep ==
    ({"pool", "roots_history"} \subseteq created) =>
        \/ pool.current_root = Z /\ hist.pushes = 0
        \/ roots_history.roots[(roots_history.current_index + ROOTS_LEN - 1) % ROOTS_LEN]
               = pool.current_root

\* the ring has wrapped: more pushes than slots, the latest of a non-zero root
C7_Witness ==
    /\ hist.pushes > ROOTS_LEN /\ pool.current_root # Z
    /\ roots_history.roots[(roots_history.current_index + ROOTS_LEN - 1) % ROOTS_LEN]
           = pool.current_root

\* C8 as stated: the number of pushes into the root history equals the number
\* of leaf insertions.
C8_Original == hist.pushes = Len(hist.leaf_log)

\* C9 as stated: the current_root after a successful shield differs from the
\* root before it and from every earlier root.
C9_Original ==
    (last.op = "shield" /\ last.res = "Ok") =>
        \A i \in DOMAIN hist.root_at :
            i < pool.next_index => hist.root_at[i] # pool.current_root

\* the root of the subtree of height `level` whose leftmost leaf has index
\* `lo`, rebuilt in one pass from the logged leaves padded with Z
RECURSIVE rebuild(_, _, _)
rebuild(leaves, lo, level) ==
    IF level = 0
    THEN IF lo + 1 <= Len(leaves) THEN leaves[lo + 1].leaf ELSE Z
    ELSE merkle_hash(rebuild(leaves, lo, level - 1),
                     rebuild(leaves, lo + 2 ^ (level - 1), level - 1))

\* C10 as stated: the root computed incrementally by insert_leaf equals the
\* root of the tree rebuilt in one pass from [L0, ..., L(n-1), Z, ..., Z].
C10_Original ==
    ("pool" \in created /\ pool.next_index >= 1) =>
        get_root(merkle_tree) = rebuild(hist.leaf_log, 0, pool.merkle_levels)

\* ------------------------------------------------------------ capacity
\* does the call carry a leaf to insert
Inserts(call) ==
    \/ call.op \in {"shield", "deposit"}
    \/ call.op = "unshield" /\ call.args.commitment # Z
    \/ call.op = "private_transfer" /\ \E i \in 1 .. 2 : call.args.outs[i] # Z

\* the number of non-zero inputs of a private_transfer
NonZeroInputs(call) ==
    (IF call.args.ins[1] # Z THEN 1 ELSE 0) + (IF call.args.ins[2] # Z THEN 1 ELSE 0)

\* does the call pass, in the state it is made in, every check its handler
\* makes before the capacity check of the tree
PassesBeforeTreeFull(call) ==
    \/ call.op \in {"shield", "deposit"} /\ call.args.amount >= MIN_DEPOSIT
    \/ /\ call.op = "unshield"
       /\ call.pre_ok /\ call.root_ok /\ call.proof = "valid"
       /\ \A n \in call.nh : ~is_spent(nullifiers, n)
       /\ nullifiers.count < NULLIFIER_CAP
    \/ /\ call.op = "private_transfer"
       /\ call.root_ok /\ call.proof = "valid"
       /\ ~any_input_spent(nullifiers, call.args.ins)
       /\ nullifiers.count + NonZeroInputs(call) <= NULLIFIER_CAP

\* a step that is an instruction carrying a leaf, taken with the tree full
AttemptOnFullTree ==
    /\ "pool" \in created /\ pool.next_index = 2 ^ pool.merkle_levels
    /\ last.op = "none" /\ Inserts(last')

ReachesMarkSpent(call) ==
    /\ call.proof = "valid" /\ call.root_ok /\ call.pre_ok
    /\ \A n \in call.nh : ~is_spent(nullifiers, n)
    /\ call.op = "withdraw_zk" => pool_vault >= call.args.amount

\* a step that is a spend carrying a nullifier hash, taken with the set full
SpendOnFullSet ==
    /\ "nullifiers" \in created /\ nullifiers.count = NULLIFIER_CAP
    /\ last.op = "none" /\ last'.op \in Spends /\ last'.nh # {}

\* C12: count never exceeds the capacity; a spend that carries a nullifier
\* hash and is made with count = capacity fails having changed neither count
\* nor any stored entry, with NullifierSetFull when it gets as far as
\* mark_spent.
C12_NullifierCapacity ==
    /\ [](nullifiers.count <= NULLIFIER_CAP)
    /\ [][SpendOnFullSet =>
            /\ last'.res # "Ok" /\ "nulls" \notin last'.written
            /\ nullifiers' = nullifiers
            /\ ReachesMarkSpent(last') => last'.res = "NullifierSetFull"]_vars

\* the set is full and a spend of an unspent nullifier hash was refused for it
C12_Witness ==
    /\ nullifiers.count = NULLIFIER_CAP
    /\ last.op \in Spends /\ last.res = "NullifierSetFull" /\ last.written = {}

\* ------------------------------------------------- denominations and fees
Withdrawals == {"unshield", "withdraw", "withdraw_zk"}

\* the six amounts of the claim (in units of 10^6 lamports)
SixDenominations ==
    {DENOM_001_SOL, DENOM_005_SOL, DENOM_01_SOL, DENOM_1_SOL, DENOM_10_SOL, DENOM_100_SOL}

C14_Original ==
    last.op \in Withdrawals =>
        (last.res = "FeeTooHigh" <=> last.args.fee > last.args.amount \div 10)

\* C14 as amended: for an amount that is a denomination, the call is rejected
\* with FeeTooHigh exactly when relayer_fee > floor(withdrawal_amount / 10)
\* (for any other amount the error is InvalidWithdrawDenomination, whatever
\* the fee); a FeeTooHigh rejection has written nothing; and in every
\* successful withdrawal relayer_fee <= withdrawal_amount.
C14_FeeBound ==
    last.op \in Withdrawals =>
        /\ last.res = "FeeTooHigh" <=>
             (last.args.amount \in SixDenominations
              /\ last.args.fee > last.args.amount \div 10)
        /\ last.res = "FeeTooHigh" => last.written = {}
        /\ last.res = "Ok" =>
             (last.args.fee <= last.args.amount
              /\ last.args.amount - last.args.fee >= 0)

\* a fee equal to the whole amount, with a valid proof and root, is refused
C14_Witness ==
    /\ last.op = "withdraw" /\ last.proof = "valid" /\ last.root_ok
    /\ last.args.amount = DENOM_001_SOL /\ last.args.fee = DENOM_001_SOL
    /\ last.res = "FeeTooHigh"

\* ---------------------------------------------------------- initialize
\* C15: initialize(merkle_levels) succeeds if and only if merkle_levels is in
\* the accepted range (MIN_LEVELS..MAX_LEVELS for 7..13); on success the pool
\* holds merkle_levels, next_index = 0, the all-zero root and zero totals;
\* otherwise it fails with InvalidMerkleLevels and no pool exists; and once
\* the pool exists no step changes merkle_levels.
C15_Initialize ==
    /\ [](last.op = "initialize" =>
            /\ last.res = "Ok" <=> last.args.levels \in MIN_LEVELS .. MAX_LEVELS
            /\ last.res = "Ok" =>
                 /\ "pool" \in created
                 /\ pool = [merkle_levels |-> last.args.levels, next_index |-> 0,
                            current_root |-> Z, total_deposits |-> 0, total_shielded |-> 0]
            /\ last.res # "Ok" =>
                 /\ last.res = "InvalidMerkleLevels"
                 /\ "pool" \notin created /\ pool = ZeroPool /\ last.written = {})
    /\ []("pool" \in created => pool.merkle_levels \in MIN_LEVELS .. MAX_LEVELS)
    /\ [][("pool" \in created) => pool'.merkle_levels = pool.merkle_levels]_vars

\* a pool initialized with the largest accepted depth
C15_Witness ==
    /\ last.op = "initialize" /\ last.res = "Ok"
    /\ last.args.levels = MAX_LEVELS /\ pool.merkle_levels = MAX_LEVELS

\* -------------------------------------------------------------- effects
\* a step that is the instruction `op`
StepOf(op) == last.op = "none" /\ last'.op = op

\* the accounts, the vault excepted, are after the step as before it
PoolUnchanged ==
    /\ pool' = pool /\ merkle_tree' = merkle_tree
    /\ roots_history' = roots_history /\ nullifiers' = nullifiers

\* the root in `current_root'` was pushed at the cursor, which advanced by one
OnePush ==
    /\ roots_history'.roots =
         [roots_history.roots EXCEPT ![roots_history.current_index] = pool'.current_root]
    /\ roots_history'.current_index = (roots_history.current_index + 1) % ROOTS_LEN

\* the position of leaf i in the node array of a tree of the pool's depth
LeafPos(i) == (2 ^ pool.merkle_levels - 1) + i

\* C16: shield(commitment, amount) with amount < MIN_DEPOSIT is rejected with
\* AmountTooSmall and changes nothing; when it succeeds from next_index = i the
\* commitment is leaf i, next_index is i + 1, total_deposits and
\* total_shielded have each grown by amount, current_root is the root of the
\* tree after the insertion, and that root is in the history slot at the old
\* cursor, the cursor having advanced by one modulo the history length.
C16_ShieldEffects ==
    [][StepOf("shield") =>
        /\ last'.args.amount < MIN_DEPOSIT =>
             /\ last'.res = "AmountTooSmall" /\ last'.written = {}
             /\ PoolUnchanged /\ pool_vault' = pool_vault
        /\ last'.res = "Ok" =>
             /\ merkle_tree'[LeafPos(pool.next_index)] = last'.args.commitment
             /\ \A i \in 0 .. pool.next_index - 1 :
                    merkle_tree'[LeafPos(i)] = merkle_tree[LeafPos(i)]
             /\ pool'.next_index = pool.next_index + 1
             /\ pool'.total_deposits = pool.total_deposits + last'.args.amount
             /\ pool'.total_shielded = pool.total_shielded + last'.args.amount
             /\ pool'.merkle_levels = pool.merkle_levels
             /\ pool'.current_root = merkle_tree'[0]
             /\ merkle_tree' =
                  insert_leaf(merkle_tree, last'.args.commitment, pool.next_index,
                              pool.merkle_levels)
             /\ OnePush
             /\ nullifiers' = nullifiers]_vars

\* a successful shield of a non-zero commitment as the second leaf
C16_Witness ==
    /\ last.op = "shield" /\ last.res = "Ok" /\ last.args.commitment # Z
    /\ pool.next_index = 2 /\ pool.total_shielded = 2 * MIN_DEPOSIT

\* the transfers out of the vault that a withdrawal of `amount` with `fee`
\* owes: the net amount to the payee, and the fee, if any, to the relayer
OwedTransfers(payee, amount, fee) ==
    << [to |-> payee, lamports |-> amount - fee] >>
    \o (IF fee > 0 THEN << [to |-> RelayerKey, lamports |-> fee] >> ELSE << >>)

\* C17: when unshield succeeds, the supplied nullifier hash and nothing else
\* is appended to the nullifier set, total_shielded falls by withdrawal_amount
\* and total_deposits stays, the vault pays withdrawal_amount - relayer_fee to
\* the recipient account of the call and relayer_fee to the relayer; with a
\* non-zero change commitment one leaf, that commitment, is inserted at
\* next_index with one push of the new root; with an all-zero one the tree,
\* next_index, current_root and the root history stay as they were.
C17_UnshieldEffects ==
    [][(StepOf("unshield") /\ last'.res = "Ok") =>
        LET a == last'.args IN
        /\ nullifiers'.count = nullifiers.count + 1
        /\ \A n \in last'.nh :
              nullifiers'.nullifiers = [nullifiers.nullifiers EXCEPT ![nullifiers.count] = n]
        /\ pool'.total_shielded = pool.total_shielded - a.amount
        /\ pool'.total_deposits = pool.total_deposits
        /\ last'.transfers = OwedTransfers(a.recipient_account, a.amount, a.fee)
        /\ pool_vault' = pool_vault - a.amount
        /\ IF a.commitment # Z
           THEN /\ pool'.next_index = pool.next_index + 1
                /\ merkle_tree'[LeafPos(pool.next_index)] = a.commitment
                /\ \A i \in 0 .. pool.next_index - 1 :
                       merkle_tree'[LeafPos(i)] = merkle_tree[LeafPos(i)]
                /\ hist'.leaf_log =
                     Append(hist.leaf_log, [index |-> pool.next_index, leaf |-> a.commitment])
                /\ pool'.current_root = merkle_tree'[0]
                /\ OnePush /\ hist'.pushes = hist.pushes + 1
           ELSE /\ merkle_tree' = merkle_tree
                /\ pool'.next_index = pool.next_index
                /\ pool'.current_root = pool.current_root
                /\ roots_history' = roots_history]_vars

\* an unshield with a fee and a change commitment has succeeded
C17_Witness ==
    /\ last.op = "unshield" /\ last.res = "Ok"
    /\ last.args.fee > 0 /\ last.args.commitment # Z
    /\ Len(last.transfers) = 2

\* ------------------------------------------------------------- binding
\* C18 as stated: whenever unshield or withdraw succeeds with a proof whose
\* public inputs bind a recipient (BoundRecipient, for every proof the
\* verifier accepts), the net payout is credited to that recipient.
C18_Original ==
    (last.op \in {"unshield", "withdraw"} /\ last.res = "Ok") =>
        /\ Len(last.transfers) >= 1
        /\ last.transfers[1].to = BoundRecipient

\* C19 as stated: withdraw_zk succeeds only if the supplied commitment is a
\* leaf that was inserted into the pool's tree.
C19_Original ==
    (last.op = "withdraw_zk" /\ last.res = "Ok") =>
        \E i \in 1 .. Len(hist.leaf_log) : hist.leaf_log[i].leaf = last.args.commitment

\* the counters of the pool are the true sums: next_index the number of leaves
\* inserted, total_deposits the sum of the amounts deposited, total_shielded
\* that sum less the sum of the amounts withdrawn; each fits 64 bits
CountersExact ==
    /\ pool.next_index = Len(hist.leaf_log)
    /\ pool.total_deposits = hist.deposited
    /\ pool.total_shielded = hist.deposited - hist.withdrawn
    /\ {pool.next_index, pool.total_deposits, pool.total_shielded} \subseteq 0 .. U64_MAX

\* a step that is a shield or a deposit whose amount takes total_deposits or
\* total_shielded past the largest u64
ShieldPastMax ==
    /\ last.op = "none" /\ last'.op \in {"shield", "deposit"}
    /\ \/ pool.total_deposits + last'.args.amount > U64_MAX
       \/ pool.total_shielded + last'.args.amount > U64_MAX

\* a step that is a withdrawal of more than total_shielded
WithdrawalPastShielded ==
    /\ last.op = "none" /\ last'.op \in Withdrawals
    /\ last'.args.amount > pool.total_shielded

\* does the shield or deposit pass, in the state it is made in, the checks its
\* handler makes before the transfer from the depositor
PassesBeforeDeposit(call) ==
    /\ call.args.amount >= MIN_DEPOSIT
    /\ pool.next_index < 2 ^ pool.merkle_levels

\* does the withdrawal pass, in the state it is made in, every check its
\* handler makes before it subtracts the amount from total_shielded, and do
\* its transfers go through
PassesBeforeSubtraction(call) ==
    /\ ReachesMarkSpent(call)
    /\ nullifiers.count < NULLIFIER_CAP
    /\ (call.op = "unshield" /\ call.args.commitment # Z) =>
           pool.next_index < 2 ^ pool.merkle_levels
    /\ pool_vault >= call.args.amount
    /\ call.op = "withdraw_zk" => call.args.recipient = call.args.recipient_account

C20_WithdrawalRejected ==
    /\ last.op \in Withdrawals /\ last.res = "ArithmeticOverflow"
    /\ last.args.amount > pool.total_shielded /\ pool_vault >= last.args.amount

\* ============================================== the whistle-verifier program
\* public_inputs.len() required by verify_withdraw_proof and verify_deposit_proof
WITHDRAW_PUBLIC_INPUTS == 5
DEPOSIT_PUBLIC_INPUTS == 2
\* the longest public_inputs vector submitted
MaxInputs == 6

\* the G1 point (1, 2) that every IC entry of the two keys holds
G1Generator == "G1(1,2)"

\* get_withdraw_verification_key / get_deposit_verification_key: the IC points
\* (alpha, beta, gamma and delta enter the pairing only)
get_withdraw_verification_key ==
    [ic |-> << G1Generator, G1Generator, G1Generator, G1Generator, G1Generator, G1Generator >>]
get_deposit_verification_key ==
    [ic |-> << G1Generator, G1Generator, G1Generator >>]

\* the 32-byte big-endian value the pairing result is compared with
one == 1

\* What the alt_bn128 syscalls answer during one verification: mul_fail = i
\* (add_fail = i) says that the i-th alt_bn128_multiplication (addition) of
\* compute_linear_combination returns an error, 0 that none does; pairing is
\* the 32-byte result of alt_bn128_pairing as a number, -1 for an error.
CurveRuns ==
    {[mul_fail |-> i, add_fail |-> 0, pairing |-> one] : i \in 1 .. MaxInputs}
    \cup {[mul_fail |-> 0, add_fail |-> i, pairing |-> one] : i \in 1 .. MaxInputs}
    \cup {[mul_fail |-> 0, add_fail |-> 0, pairing |-> p] : p \in {-1, 0, one, 2}}

\* the loop of compute_linear_combination from its i-th iteration on: "Ok" or
\* the error of the first syscall that fails
RECURSIVE linear_combination_from(_, _, _)
linear_combination_from(i, public_inputs, run) ==
    IF i > public_inputs THEN "Ok"
    ELSE IF run.mul_fail = i THEN "ScalarMulFailed"
    ELSE IF run.add_fail = i THEN "PointAdditionFailed"
    ELSE linear_combination_from(i + 1, public_inputs, run)

\* compute_linear_combination(ic, public_inputs); public_inputs is the length
\* of the vector
compute_linear_combination(ic, public_inputs, run) ==
    linear_combination_from(1, public_inputs, run)

\* the pairing result compared with nothing: Ok(true) whatever the result
groth16_any_pairing_result(ic_len, public_inputs, run) ==
    IF ~(ic_len = public_inputs + 1) THEN "InvalidVerificationKey"
    ELSE LET vk_x == compute_linear_combination(ic_len, public_inputs, run)
         IN IF vk_x # "Ok" THEN vk_x
            ELSE IF run.pairing = -1 THEN "PairingFailed"
            ELSE "true"

\* verify_groth16_proof(proof, public_inputs, vk): "true", "false" or an error;
\* ic_len is vk.ic.len()
verify_groth16_proof(ic_len, public_inputs, run) ==
    IF ~(ic_len = public_inputs + 1) THEN "InvalidVerificationKey"
    ELSE LET vk_x == compute_linear_combination(ic_len, public_inputs, run)
         IN IF vk_x # "Ok" THEN vk_x
            ELSE IF run.pairing = -1 THEN "PairingFailed"
            ELSE IF run.pairing = one THEN "true" ELSE "false"

\* what the two instructions make of verify_groth16_proof's answer
verified(result) ==
    IF result = "false" THEN "ProofVerificationFailed"
    ELSE IF result = "true" THEN "Ok" ELSE result

\* verify_withdraw_proof accepting five public inputs or more
verify_withdraw_proof_at_least(public_inputs, run) ==
    IF ~(public_inputs >= WITHDRAW_PUBLIC_INPUTS) THEN "InvalidPublicInputCount"
    ELSE verified(verify_groth16_proof(Len(get_withdraw_verification_key.ic), public_inputs, run))

\* verify_withdraw_proof(proof_a, proof_b, proof_c, public_inputs)
verify_withdraw_proof(public_inputs, run) ==
    IF ~(public_inputs = WITHDRAW_PUBLIC_INPUTS) THEN "InvalidPublicInputCount"
    ELSE verified(verify_groth16_proof(Len(get_withdraw_verification_key.ic), public_inputs, run))

\* verify_deposit_proof(proof_a, proof_b, proof_c, public_inputs)
verify_deposit_proof(public_inputs, run) ==
    IF ~(public_inputs = DEPOSIT_PUBLIC_INPUTS) THEN "InvalidPublicInputCount"
    ELSE verified(verify_groth16_proof(Len(get_deposit_verification_key.ic), public_inputs, run))

\* a call of the verifier as `last` keeps it: the number of public inputs, the
\* number of IC points of the key, the syscalls' answers and the result
VerifierCall(op, public_inputs, ic_len, run, res) ==
    [NoCall EXCEPT !.op = op, !.res = res,
                   !.args = [public_inputs |-> public_inputs, ic |-> ic_len, run |-> run]]

PoolUntouched ==
    UNCHANGED << created, pool, merkle_tree, roots_history, nullifiers, pool_vault, hist >>

VerifyWithdrawProof(public_inputs, run) ==
    /\ last' = VerifierCall("verify_withdraw_proof", public_inputs,
                            Len(get_withdraw_verification_key.ic), run,
                            verify_withdraw_proof(public_inputs, run))
    /\ PoolUntouched

VerifyDepositProof(public_inputs, run) ==
    /\ last' = VerifierCall("verify_deposit_proof", public_inputs,
                            Len(get_deposit_verification_key.ic), run,
                            verify_deposit_proof(public_inputs, run))
    /\ PoolUntouched

\* verify_groth16_proof applied to a key of any length
VerifyGroth16Proof(ic_len, public_inputs, run) ==
    /\ last' = VerifierCall("verify_groth16_proof", public_inputs, ic_len, run,
                            verify_groth16_proof(ic_len, public_inputs, run))
    /\ PoolUntouched

\* the verifier keeps no state: its calls follow one another in any order
NextVerifier ==
    \/ \E n \in 0 .. MaxInputs, run \in CurveRuns : VerifyWithdrawProof(n, run)
    \/ \E n \in 0 .. MaxInputs, run \in CurveRuns : VerifyDepositProof(n, run)
    \/ \E n \in 0 .. MaxInputs, k \in 0 .. 2, run \in CurveRuns : VerifyGroth16Proof(n + k, n, run)

SpecVerifier == Init /\ [][NextVerifier]_vars

\* the two instructions of the verifier
VerifierInstructions == {"verify_withdraw_proof", "verify_deposit_proof"}

\* the number of public inputs the instruction requires
RequiredInputs(op) ==
    IF op = "verify_withdraw_proof" THEN WITHDRAW_PUBLIC_INPUTS ELSE DEPOSIT_PUBLIC_INPUTS

\* C21 (public-input count): verify_withdraw_proof fails with
\* InvalidPublicInputCount exactly when it is not given 5 public inputs,
\* verify_deposit_proof exactly when it is not given 2, and
\* verify_groth16_proof fails with InvalidVerificationKey exactly when
\* len(IC) # len(public_inputs) + 1; a call that is accepted had the required
\* number of inputs and one IC point more than inputs.
C21_PublicInputCount ==
    /\ last.op \in VerifierInstructions =>
          /\ last.res = "InvalidPublicInputCount"
                <=> last.args.public_inputs # RequiredInputs(last.op)
          /\ last.res = "Ok" => last.args.ic = last.args.public_inputs + 1
    /\ last.op = "verify_groth16_proof" =>
          /\ last.res = "InvalidVerificationKey"
                <=> last.args.ic # last.args.public_inputs + 1
          /\ last.res \in {"true", "false"} => last.args.ic = last.args.public_inputs + 1

\* verify_withdraw_proof has rejected six public inputs whose curve operations
\* and pairing would all have succeeded
C21_Witness ==
    /\ last.op = "verify_withdraw_proof"
    /\ last.args.public_inputs = WITHDRAW_PUBLIC_INPUTS + 1
    /\ last.args.run = [mul_fail |-> 0, add_fail |-> 0, pairing |-> one]
    /\ last.res = "InvalidPublicInputCount"

\* every syscall of the call succeeded and the pairing result is 1
AllCurveOperationsPass(call) ==
    /\ call.args.run.mul_fail \notin 1 .. call.args.public_inputs
    /\ call.args.run.add_fail \notin 1 .. call.args.public_inputs
    /\ call.args.run.pairing = 1

\* C22 (accept only on a successful pairing check): verify_withdraw_proof and
\* verify_deposit_proof return success if and only if they were given the
\* required number of inputs, every scalar multiplication and point addition
\* and the pairing call succeeded and the pairing result is 1; every other
\* call returns an error. verify_groth16_proof answers true under the same
\* condition and never answers true or false after a failed syscall.
C22_AcceptOnlyOnPairing ==
    /\ last.op \in VerifierInstructions =>
          (last.res = "Ok"
              <=> /\ last.args.public_inputs = RequiredInputs(last.op)
                  /\ AllCurveOperationsPass(last))
    /\ last.op = "verify_groth16_proof" =>
          /\ last.res = "true"
                <=> /\ last.args.ic = last.args.public_inputs + 1
                    /\ AllCurveOperationsPass(last)
          /\ last.res = "false" => last.args.run.pairing \notin {-1, 1}

\* a withdrawal proof whose curve operations all succeed and whose pairing
\* result is 2 has been rejected
C22_Witness ==
    /\ last.op = "verify_withdraw_proof"
    /\ last.args.public_inputs = WITHDRAW_PUBLIC_INPUTS
    /\ last.args.run = [mul_fail |-> 0, add_fail |-> 0, pairing |-> 2]
    /\ last.res = "ProofVerificationFailed"

\* a withdrawal proof has been accepted
C22_Accepted ==
    last.op = "verify_withdraw_proof" /\ last.res = "Ok"

\* the call had the required number of inputs and was rejected because of the
\* proof: a scalar multiplication, a point addition or the pairing call
\* failed, or the pairing result was not 1
RejectedForProof(call) ==
    /\ call.op \in VerifierInstructions
    /\ call.args.public_inputs = RequiredInputs(call.op)
    /\ ~AllCurveOperationsPass(call)

\* C23 as stated: any two submissions rejected because of the proof return the
\* same error, whichever check failed.
C23_Original ==
    [][(RejectedForProof(last) /\ RejectedForProof(last')) => last'.res = last.res]_vars

\* ------------------------------------------------ whistle-merkle program
\* the longest path a caller submits
MaxPath == 2

\* compute_poseidon(left, right): a hash of the 64 bytes left || right. The
\* program takes Keccak here; it is modelled by the same free hash as the
\* pool's merkle_hash, which is what a comparison of the two programs assumes.
compute_poseidon(left, right) == merkle_hash(left, right)

\* the result of a computation that may abort the program
Value(v) == [res |-> "Ok", value |-> v]
Panicked == [res |-> "Panic", value |-> Z]

\* the loop of compute_merkle_root from step i on: path_indices[i] is read
\* with Rust's checked indexing, which panics past the end of the vector
RECURSIVE merkle_root_from(_, _, _, _)
merkle_root_from(current, path_elements, path_indices, i) ==
    IF i > Len(path_elements) THEN Value(current)
    ELSE IF i > Len(path_indices) THEN Panicked
    ELSE IF path_indices[i] = 0
         THEN merkle_root_from(compute_poseidon(current, path_elements[i]), path_elements, path_indices, i + 1)
         ELSE merkle_root_from(compute_poseidon(path_elements[i], current), path_elements, path_indices, i + 1)

\* compute_merkle_root with the two hash arguments in the same order for both index values
compute_merkle_root_one_order(leaf, path_elements, path_indices) ==
    merkle_root_from(leaf, path_elements, [i \in DOMAIN path_indices |-> 0], 1)

\* compute_merkle_root(leaf, path_elements, path_indices)
compute_merkle_root(leaf, path_elements, path_indices) ==
    merkle_root_from(leaf, path_elements, path_indices, 1)

\* verify_merkle_proof(leaf, path_elements, path_indices, root)
verify_merkle_proof(leaf, path_elements, path_indices, root) ==
    LET computed == compute_merkle_root(leaf, path_elements, path_indices)
    IN IF computed.res = "Ok" THEN Value(computed.value = root) ELSE computed

\* poseidon_hash(left, right)
poseidon_hash(left, right) == Value(compute_poseidon(left, right))

\* the sequences over S of length 0 .. MaxPath
Paths(S) == UNION {[1 .. n -> S] : n \in 0 .. MaxPath}

MerkleCall(op, args, r) == [NoCall EXCEPT !.op = op, !.res = r.res, !.args = args]

\* the two instructions of the program: they take no account and write nothing
PoseidonHash(left, right) ==
    /\ last' = MerkleCall("poseidon_hash", [left |-> left, right |-> right], poseidon_hash(left, right))
    /\ PoolUntouched

VerifyMerkleProof(leaf, path_elements, path_indices, root) ==
    /\ last' = MerkleCall("verify_merkle_proof",
                          [leaf |-> leaf, path_elements |-> path_elements,
                           path_indices |-> path_indices, root |-> root],
                          verify_merkle_proof(leaf, path_elements, path_indices, root))
    /\ PoolUntouched

\* commitments a depositor may pass: no check bounds them by the field modulus
AnyCommitments == Values \cup {NotInField}

\* the merkle program's instructions and the pool's insertions, with
\* commitments drawn from all the 32-byte values
InstructionMerkle ==
    \/ \E l \in MIN_LEVELS .. MAX_LEVELS : Initialize(l)
    \/ InitMerkle
    \/ InitRoots
    \/ InitNullifiers
    \/ \E c \in AnyCommitments : Shield(c, MIN_DEPOSIT, TRUE)
    \/ \E l \in Values, r \in Values : PoseidonHash(l, r)
    \/ \E leaf \in Values, pe \in Paths(Values), pi \in Paths({0, 1}), root \in {Z, merkle_tree[0]} :
          VerifyMerkleProof(leaf, pe, pi, root)

NextMerkle ==
    \/ last.op = "none" /\ InstructionMerkle
    \/ Forget

SpecMerkle == Init /\ [][NextMerkle]_vars

\* C24: no public operation of the three programs aborts: every call
\* returns success or one of the programs' typed errors, never a panic.
C24_Original == last.res # "Panic"

\* C24: verify_merkle_proof called with path_indices shorter than
\* path_elements has aborted.
C24_ShortIndicesPanic ==
    /\ last.op = "verify_merkle_proof" /\ last.res = "Panic"
    /\ Len(last.args.path_indices) < Len(last.args.path_elements)

\* C24: a shield whose insertion met a failing hash has aborted.
C24_HashErrorPanic ==
    /\ last.op = "shield" /\ last.res = "Panic"
    /\ last.args.commitment = NotInField

\* C25: a nullifier hash marked by a successful spend is spent from the
\* state that spend leaves, and no step makes a spent hash unspent, changes
\* an entry of nullifiers[0 .. count) or lowers count.
C25_SpentIsPermanent ==
    [][/\ (last'.op \in Spends /\ last'.res = "Ok") => \A v \in last'.nh : is_spent(nullifiers', v)
       /\ \A v \in Values \cup {BogusRoot} : is_spent(nullifiers, v) => is_spent(nullifiers', v)
       /\ nullifiers'.count >= nullifiers.count
       /\ \A i \in 0 .. nullifiers.count - 1 :
             i < NULLIFIER_CAP => nullifiers'.nullifiers[i] = nullifiers.nullifiers[i]]_vars

\* C25: a second spend has succeeded and the hash of the first one, stored
\* below it, is still spent.
C25_Witness ==
    /\ last.op \in Spends /\ last.res = "Ok"
    /\ nullifiers.count = 2
    /\ nullifiers.nullifiers[0] # nullifiers.nullifiers[1]
    /\ nullifiers.nullifiers[1] \in last.nh
    /\ is_spent(nullifiers, nullifiers.nullifiers[0])

\* ------------------------------------------- transfers with two notes
\* a second non-zero commitment, so that the two outputs of one transfer differ
SecondNote == Val(4)
OutputChoices == Values \cup {SecondNote}

\* deposits and transfers, the transfers creating any two of the notes
InstructionTransfer ==
    \/ \E l \in MIN_LEVELS .. MAX_LEVELS : Initialize(l)
    \/ InitMerkle
    \/ InitRoots
    \/ InitNullifiers
    \/ \E c \in Values : Shield(c, MIN_DEPOSIT, TRUE)
    \/ \E x \in TransferInputs, i \in Values \X Values, o \in OutputChoices \X OutputChoices :
          PrivateTransfer(x[1], i, o, x[2])

NextTransfer ==
    \/ last.op = "none" /\ InstructionTransfer
    \/ Forget

SpecTransfer == Init /\ [][NextTransfer]_vars

\* the non-zero entries of a pair of 32-byte values, in argument order
NonZero(pair) == SelectSeq(pair, LAMBDA v : v # Z)

\* C26: a private_transfer succeeds only from a state in which its root is
\* valid, none of its non-zero inputs is spent and its proof verifies; it
\* appends exactly its non-zero inputs to the nullifier set (never a zero),
\* writes exactly its non-zero outputs to the next leaves in argument order,
\* and leaves total_deposits, total_shielded and the vault balance as they were.
C26_TransferEffects ==
    [][(last.op = "none" /\ last'.op = "private_transfer" /\ last'.res = "Ok") =>
        LET ins == NonZero(last'.args.ins)
            outs == NonZero(last'.args.outs)
        IN /\ last'.root_ok
           /\ last'.proof = "valid"
           /\ \A k \in 1 .. Len(ins) : ~is_spent(nullifiers, ins[k])
           /\ nullifiers'.count = nullifiers.count + Len(ins)
           /\ \A k \in 1 .. Len(ins) : nullifiers'.nullifiers[nullifiers.count + k - 1] = ins[k]
           /\ \A i \in 0 .. nullifiers.count - 1 : nullifiers'.nullifiers[i] = nullifiers.nullifiers[i]
           /\ \A i \in nullifiers.count .. nullifiers'.count - 1 : nullifiers'.nullifiers[i] # Z
           /\ \A v \in Values \cup {BogusRoot} :
                 is_spent(nullifiers', v) <=> (is_spent(nullifiers, v) \/ \E k \in 1 .. Len(ins) : ins[k] = v)
           /\ pool'.next_index = pool.next_index + Len(outs)
           /\ \A k \in 1 .. Len(outs) : merkle_tree'[LeafPos(pool.next_index + k - 1)] = outs[k]
           /\ \A i \in 0 .. pool.next_index - 1 : merkle_tree'[LeafPos(i)] = merkle_tree[LeafPos(i)]
           /\ pool'.total_deposits = pool.total_deposits
           /\ pool'.total_shielded = pool.total_shielded
           /\ pool_vault' = pool_vault]_vars

\* C26: a transfer with one zero input and two different non-zero outputs
\* has succeeded in a pool that holds deposits.
C26_Witness ==
    /\ last.op = "private_transfer" /\ last.res = "Ok"
    /\ last.args.ins[1] = Z /\ last.args.ins[2] # Z
    /\ last.args.outs[1] # Z /\ last.args.outs[2] # Z
    /\ last.args.outs[1] # last.args.outs[2]
    /\ merkle_tree[LeafPos(pool.next_index - 2)] = last.args.outs[1]
    /\ merkle_tree[LeafPos(pool.next_index - 1)] = last.args.outs[2]
    /\ pool.total_shielded > 0
    /\ pool_vault > 0

\* the position in MerkleTree.nodes of the ancestor, k - 1 levels above the
\* leaves, of the leaf with this index (k = 1: the leaf itself)
PathPos(index, k) ==
    (2 ^ (pool.merkle_levels - k + 1) - 1) + index \div (2 ^ (k - 1))

\* the stored siblings along the path of a leaf, from the leaves upwards
StoredSiblings(index) ==
    [k \in 1 .. pool.merkle_levels |->
        LET pos == PathPos(index, k)
        IN merkle_tree[IF pos % 2 = 1 THEN pos + 1 ELSE pos - 1]]

\* the bits of a leaf index, least significant first
IndexBits(index) == [k \in 1 .. pool.merkle_levels |-> (index \div (2 ^ (k - 1))) % 2]

\* C27: for every leaf inserted into the pool's tree, verify_merkle_proof
\* given the leaf, the stored siblings along its path, the bits of its index
\* and the root of the tree returns true.
C27_PathOrderConsistent ==
    \A n \in 1 .. Len(hist.leaf_log) :
        LET e == hist.leaf_log[n]
        IN verify_merkle_proof(e.leaf, StoredSiblings(e.index), IndexBits(e.index), get_root(merkle_tree))
              = Value(TRUE)

\* C27: a tree of two levels holds three leaves, the second one different
\* from the first and folded as a right child.
C27_Witness ==
    /\ pool.merkle_levels = 2
    /\ Len(hist.leaf_log) >= 3
    /\ hist.leaf_log[2].index = 1
    /\ hist.leaf_log[2].leaf # hist.leaf_log[1].leaf
    /\ IndexBits(1) = << 1, 0 >>
    /\ compute_merkle_root(hist.leaf_log[2].leaf, StoredSiblings(1), IndexBits(1)) = Value(merkle_tree[0])

\* the accounts after a call that returned r: its writes if it succeeded,
\* the accounts as they were if it failed
AfterCall(r) == IF r.res = "Ok" THEN r.acc ELSE Accounts

\* C28: in every state in which an instruction can be taken and the accounts
\* of a deposit exist, deposit and shield called with the same commitment and
\* amount return the same result and leave the same pool, Merkle tree, root
\* history and vault.
C28_DepositIsShield ==
    (last.op = "none" /\ ShieldAccounts \subseteq created) =>
        \A c \in Values, a \in ShieldAmounts, f \in BOOLEAN :
            LET d == deposit(Accounts, c, a, f)
                sh == shield(Accounts, c, a, f)
            IN /\ d.res = sh.res
               /\ \A k \in {"pool", "tree", "roots", "vault"} : AfterCall(d)[k] = AfterCall(sh)[k]

\* C28: in a pool that holds a deposit, deposit and shield both succeed for
\* one amount and are both rejected for another.
C28_Witness ==
    /\ last.op = "none"
    /\ \E n \in 1 .. Len(hist.leaf_log) : hist.leaf_log[n].leaf # Z
    /\ pool.total_shielded > 0
    /\ deposit(Accounts, Val(1), MIN_DEPOSIT, TRUE).res = "Ok"
    /\ shield(Accounts, Val(1), MIN_DEPOSIT, TRUE).res = "Ok"
    /\ deposit(Accounts, Val(1), MIN_DEPOSIT - 1, TRUE).res = "AmountTooSmall"
    /\ shield(Accounts, Val(1), MIN_DEPOSIT - 1, TRUE).res = "AmountTooSmall"

\* C29: in every state in which an instruction can be taken and the accounts
\* of a withdrawal exist, withdraw and unshield with an all-zero
\* change_commitment, given the same arguments and the same proof verdict,
\* return the same result and leave the same pool, nullifier set, Merkle
\* tree, root history and vault.
C29_WithdrawIsUnshieldNoChange ==
    (last.op = "none" /\ UnshieldAccounts \subseteq created) =>
        \A y \in WithdrawalInputs, n \in Values :
            LET w == withdraw(Accounts, y[1][1], n, y[2][1], y[1][2], y[1][3], y[1][4], y[2][2])
                u == unshield(Accounts, y[1][1], n, y[2][1], y[1][2], y[1][3], y[1][4], Z, y[2][2])
            IN /\ w.res = u.res
               /\ \A k \in {"pool", "nulls", "tree", "roots", "vault"} : AfterCall(w)[k] = AfterCall(u)[k]

\* C29: in a pool with a spent nullifier, withdraw and unshield without
\* change both succeed for an unspent nullifier and are both rejected for
\* the spent one.
C29_Witness ==
    /\ last.op = "none"
    /\ is_spent(nullifiers, Val(1)) /\ ~is_spent(nullifiers, Z)
    /\ withdraw(Accounts, "valid", Z, BoundRecipient, DENOM_001_SOL, MaxFee, pool.current_root, BoundRecipient).res = "Ok"
    /\ unshield(Accounts, "valid", Z, BoundRecipient, DENOM_001_SOL, MaxFee, pool.current_root, Z, BoundRecipient).res = "Ok"
    /\ withdraw(Accounts, "valid", Val(1), BoundRecipient, DENOM_001_SOL, MaxFee, pool.current_root, BoundRecipient).res = "NullifierAlreadyUsed"
    /\ unshield(Accounts, "valid", Val(1), BoundRecipient, DENOM_001_SOL, MaxFee, pool.current_root, Z, BoundRecipient).res = "NullifierAlreadyUsed"

\* the rejections of the checks that follow the proof check
LateRejections == {"TreeFull", "NullifierSetFull", "InsufficientVaultBalance", "ArithmeticOverflow"}

\* C30: a shield, unshield or private_transfer rejected by the capacity check
\* of the tree, the capacity check of the nullifier set, the vault balance
\* check or a checked counter operation had, when it returned, written
\* neither the nullifier set nor the Merkle tree, current_root, next_index or
\* the root history.
C30_Original ==
    (last.op \in {"shield", "unshield", "private_transfer"} /\ last.res \in LateRejections)
        => last.written \cap {"nulls", "tree", "pool", "roots"} = {}

\* C30: an unshield has returned InsufficientVaultBalance after it marked
\* its nullifier.
C30_UnshieldMarkedThenRejected ==
    /\ last.op = "unshield" /\ last.res = "InsufficientVaultBalance"
    /\ "nulls" \in last.written

\* C30: a private_transfer has returned TreeFull or NullifierSetFull after
\* it marked a nullifier.
C30_TransferMarkedThenRejected ==
    /\ last.op = "private_transfer" /\ last.res \in {"TreeFull", "NullifierSetFull"}
    /\ "nulls" \in last.written

\* C30: a shield has returned ArithmeticOverflow after it inserted its leaf.
C30_ShieldInsertedThenRejected ==
    /\ last.op = "shield" /\ last.res = "ArithmeticOverflow"
    /\ "tree" \in last.written

\* the slot of the ring written by the push that pushed hist.recent[k]
SlotOfRecent(k) == (hist.pushes - Len(hist.recent) + k - 1) % ROOTS_LEN

\* C31: the write cursor is the number of pushes modulo the length of the
\* ring; the history holds exactly the last min(pushes, length) pushed roots,
\* each in the slot its push found under the cursor, and every other slot is
\* all-zero as created: each push has written one slot, the one written
\* longest ago or never, and left the others.
C31_RingWrite ==
    "roots_history" \in created =>
        /\ roots_history.current_index = hist.pushes % ROOTS_LEN
        /\ Len(hist.recent) = Min(hist.pushes, ROOTS_LEN)
        /\ \A k \in 1 .. Len(hist.recent) : roots_history.roots[SlotOfRecent(k)] = hist.recent[k]
        /\ \A i \in 0 .. ROOTS_LEN - 1 : i >= hist.pushes => roots_history.roots[i] = Z

\* C31: the ring has wrapped: more roots were pushed than it has slots, the
\* last of them differ from each other and each is in its slot.
C31_Witness ==
    /\ hist.pushes > ROOTS_LEN
    /\ Len(hist.recent) = ROOTS_LEN
    /\ \A j, k \in 1 .. ROOTS_LEN : j # k => hist.recent[j] # hist.recent[k]
    /\ \A k \in 1 .. ROOTS_LEN : roots_history.roots[SlotOfRecent(k)] = hist.recent[k]
    /\ roots_history.roots[(hist.pushes - 1) % ROOTS_LEN] = pool.current_root

\* the depth of each position of MerkleTree.nodes: 0 for the root
DepthOf ==
    [p \in 0 .. NodesLen - 1 |->
        CHOOSE d \in 0 .. MAX_LEVELS + 1 : 2 ^ d - 1 <= p /\ p < 2 ^ (d + 1) - 1]

Depth(p) == DepthOf[p]

\* the position k levels above position p
Above(p, k) == (p + 1) \div (2 ^ k) - 1

\* p is a node of the tree of pool.merkle_levels levels and the leaf with the
\* least index beneath it (p itself, if p is a leaf) has been inserted
HasLeafBeneath(p) ==
    /\ Depth(p) <= pool.merkle_levels
    /\ (p - (2 ^ Depth(p) - 1)) * 2 ^ (pool.merkle_levels - Depth(p)) < pool.next_index

\* every node above an inserted leaf is the hash of its two stored children,
\* every node with no inserted leaf beneath it is all-zero
NodesAreHashes ==
    "merkle_tree" \in created =>
        \A p \in 0 .. NodesLen - 1 :
            IF HasLeafBeneath(p)
            THEN Depth(p) < pool.merkle_levels =>
                    merkle_tree[p] = merkle_hash(merkle_tree[2 * p + 1], merkle_tree[2 * p + 2])
            ELSE merkle_tree[p] = Z

\* the leaf positions a step has inserted at
InsertedAt == {LeafPos(hist'.leaf_log[n].index) : n \in Len(hist.leaf_log) + 1 .. Len(hist'.leaf_log)}

\* a step changes no node other than the leaves it inserts and their ancestors
OnlyPathsRewritten ==
    \/ merkle_tree' = merkle_tree
    \/ \A p \in 0 .. NodesLen - 1 :
           merkle_tree'[p] # merkle_tree[p] =>
               \E q \in InsertedAt, k \in 0 .. pool.merkle_levels : Above(q, k) = p

\* C32: in every reachable state every node above an inserted leaf equals
\* the hash of its stored children and every node with no inserted leaf
\* beneath it is all-zero; and an insertion rewrites only the leaf position
\* and its ancestors.
C32_NodeInvariant == []NodesAreHashes /\ [][OnlyPathsRewritten]_vars

\* C32: a tree of two levels holds three leaves: the right half of the tree
\* is the hash of its inserted leaf and a never-written one, and the last
\* insertion has just been made.
C32_Witness ==
    /\ pool.merkle_levels = 2 /\ pool.next_index = 3
    /\ last.res = "Ok" /\ "tree" \in last.written
    /\ merkle_tree[5] # Z /\ merkle_tree[6] = Z
    /\ merkle_tree[2] = merkle_hash(merkle_tree[5], Z)
    /\ merkle_tree[0] = merkle_hash(merkle_tree[1], merkle_tree[2])

\* ------------------------------------------- field arithmetic on bytes
\* A bounded-width analogue of the 32-byte big-endian arithmetic: numbers of
\* ByteWidth digits in base ByteBase (for 32 and 256), and a prime modulus
\* below ByteBase ^ ByteWidth (for the BN254 field modulus).
ByteBase == 4
ByteWidth == 2
FieldModulus == 13

\* the big-endian bytes of a number, and the number of big-endian bytes
to_bytes(n) == [i \in 1 .. ByteWidth |-> (n \div (ByteBase ^ (ByteWidth - i))) % ByteBase]
RECURSIVE from_bytes_upto(_, _)
from_bytes_upto(bytes, i) == IF i = 0 THEN 0 ELSE from_bytes_upto(bytes, i - 1) * ByteBase + bytes[i]
from_bytes(bytes) == from_bytes_upto(bytes, ByteWidth)

\* the loop of field_sub from byte i down to the most significant one
RECURSIVE field_sub_from(_, _, _, _, _)
field_sub_from(a, b, i, borrow, result) ==
    IF i < 1 THEN result
    ELSE LET diff == a[i] - b[i] - borrow
         IN IF diff < 0
            THEN field_sub_from(a, b, i - 1, 1, [result EXCEPT ![i] = diff + ByteBase])
            ELSE field_sub_from(a, b, i - 1, 0, [result EXCEPT ![i] = diff])

\* field_sub(a, b): byte-wise subtraction with borrow, the last borrow dropped
field_sub(a, b) == field_sub_from(a, b, ByteWidth, 0, [i \in 1 .. ByteWidth |-> 0])

\* negate_g1_point(point): the y-coordinate replaced by field_sub(p, y)
negate_g1_point(point) == [x |-> point.x, y |-> field_sub(to_bytes(FieldModulus), point.y)]

FieldElements == 0 .. FieldModulus - 1

FieldCall(op, args, out) == [NoCall EXCEPT !.op = op, !.res = "Ok", !.args = [in |-> args, out |-> out]]

NegateG1Point(x, y) ==
    /\ last' = FieldCall("negate_g1_point", [x |-> x, y |-> y],
                         negate_g1_point([x |-> to_bytes(x), y |-> to_bytes(y)]))
    /\ PoolUntouched

FieldSub(a, b) ==
    /\ last' = FieldCall("field_sub", [a |-> a, b |-> b], field_sub(to_bytes(a), to_bytes(b)))
    /\ PoolUntouched

NextField ==
    \/ \E x \in FieldElements, y \in FieldElements : NegateG1Point(x, y)
    \/ \E a \in FieldElements, b \in FieldElements : FieldSub(a, b)

SpecField == Init /\ [][NextField]_vars

\* C33: negate_g1_point, given a point (x, y) with 0 <= y < p, returns
\* (x, y') with 0 <= y' < p and (y + y') mod p = 0, and field_sub(a, b)
\* returns (a - b) mod p for all field elements a and b.
C33_Original ==
    /\ last.op = "negate_g1_point" =>
          LET y == last.args.in.y
              neg == from_bytes(last.args.out.y)
          IN /\ last.args.out.x = to_bytes(last.args.in.x)
             /\ 0 <= neg /\ neg < FieldModulus
             /\ (y + neg) % FieldModulus = 0
    /\ last.op = "field_sub" =>
          from_bytes(last.args.out) = (last.args.in.a - last.args.in.b) % FieldModulus

\* C33: the negation of a point with y = 0 has the modulus itself as its
\* y-coordinate.
C33_NegatedZeroIsModulus ==
    /\ last.op = "negate_g1_point" /\ last.args.in.y = 0
    /\ from_bytes(last.args.out.y) = FieldModulus

\* C33: field_sub of a smaller from a greater element has wrapped at the
\* width of the bytes, not at the modulus.
C33_SubtractionWraps ==
    /\ last.op = "field_sub" /\ last.args.in.a < last.args.in.b
    /\ from_bytes(last.args.out)
          = (last.args.in.a - last.args.in.b) % (ByteBase ^ ByteWidth)
    /\ from_bytes(last.args.out) # (last.args.in.a - last.args.in.b) % FieldModulus

\* C33: for 0 < y < p the negation is p - y, and for b <= a field_sub is a - b.
C33_HoldsWithoutBorrow ==
    /\ (last.op = "negate_g1_point" /\ last.args.in.y > 0) =>
          from_bytes(last.args.out.y) = FieldModulus - last.args.in.y
    /\ (last.op = "field_sub" /\ last.args.in.b <= last.args.in.a) =>
          from_bytes(last.args.out) = last.args.in.a - last.args.in.b

\* the roots of the last min(pushes, ROOTS_LEN) pushes
RecentlyPushed == {hist.recent[k] : k \in 1 .. Len(hist.recent)}

C34_ZeroAcceptedFromEmptySlot ==
    /\ {"pool", "roots_history"} \subseteq created
    /\ root_valid(Accounts, Z)
    /\ pool.current_root # Z
    /\ Z \notin RecentlyPushed
    /\ \E i \in 0 .. ROOTS_LEN - 1 : i >= hist.pushes /\ roots_history.roots[i] = Z

\* C34: once every slot has been written, the roots that pass the check are
\* the current root and the roots of the last ROOTS_LEN pushes.
C34_HoldsOnceFull ==
    ({"pool", "roots_history"} \subseteq created /\ hist.pushes >= ROOTS_LEN) =>
        \A r \in RootChoices \cup {Z} :
            root_valid(Accounts, r) => (r = pool.current_root \/ r \in RecentlyPushed)

\* C35: in every reachable state the write cursor of the root history is a
\* slot of the ring, 0 .. ROOTS_LEN - 1, so the next push writes inside the
\* array.
C35_CursorInRange ==
    /\ roots_history.current_index \in 0 .. ROOTS_LEN - 1
    /\ DOMAIN roots_history.roots = 0 .. ROOTS_LEN - 1

\* C35: the cursor has gone round: after more pushes than the ring has
\* slots it is back on the first slot, the last push having written the
\* last slot.
C35_Witness ==
    /\ hist.pushes > ROOTS_LEN
    /\ hist.pushes % ROOTS_LEN = 0
    /\ roots_history.current_index = 0
    /\ roots_history.roots[ROOTS_LEN - 1] = pool.current_root
    /\ last.res = "Ok" /\ "roots" \in last.written

\* C36: in every reachable state in which the pool and its tree exist,
\* pool.current_root is the stored root nodes[0].
C36_CurrentRootIsStoredRoot ==
    {"pool", "merkle_tree"} \subseteq created => pool.current_root = merkle_tree[0]

\* C36: a private_transfer has inserted two outputs and the current root is
\* the stored root, which is not the initial one.
C36_Witness ==
    /\ last.op = "private_transfer" /\ last.res = "Ok"
    /\ last.args.outs[1] # Z /\ last.args.outs[2] # Z
    /\ pool.current_root = merkle_tree[0]
    /\ pool.current_root # Z

\* C36: right after initialization the current root and the stored root are
\* both all-zero.
C36_AfterInit ==
    /\ last.op = "init_merkle" /\ last.res = "Ok"
    /\ pool.current_root = Z /\ merkle_tree[0] = Z

\* C36: a private_transfer without outputs has left the current root on the
\* stored root.
C36_NoOutputs ==
    /\ last.op = "private_transfer" /\ last.res = "Ok"
    /\ last.args.outs = << Z, Z >>
    /\ pool.next_index > 0
    /\ pool.current_root = merkle_tree[0]

\* every leaf position below next_index holds the commitment inserted at
\* its index, every other leaf position is all-zero and has no insertion
LeavesAsInserted ==
    {"pool", "merkle_tree"} \subseteq created =>
        /\ Len(hist.leaf_log) = pool.next_index
        /\ \A i \in 0 .. 2 ^ pool.merkle_levels - 1 :
              merkle_tree[LeafPos(i)] =
                 IF i < pool.next_index THEN hist.leaf_log[i + 1].leaf ELSE Z

\* a step changes no leaf position below next_index
InsertedLeavesKept ==
    \A i \in 0 .. pool.next_index - 1 : merkle_tree'[LeafPos(i)] = merkle_tree[LeafPos(i)]

\* C37: in every reachable state the leaf positions from next_index on are
\* all-zero and no insertion was made at them, each leaf position below
\* next_index holds the commitment inserted at its index, and no step
\* modifies a leaf position below next_index.
C37_LeavesWriteOnce == []LeavesAsInserted /\ [][InsertedLeavesKept]_vars

\* C37: a third leaf has been inserted into a tree of two levels: the two
\* leaves before it are as they were inserted and the fourth is all-zero.
C37_Witness ==
    /\ pool.merkle_levels = 2 /\ pool.next_index = 3
    /\ last.res = "Ok" /\ "tree" \in last.written
    /\ merkle_tree[LeafPos(0)] = hist.leaf_log[1].leaf
    /\ merkle_tree[LeafPos(1)] = hist.leaf_log[2].leaf
    /\ merkle_tree[LeafPos(0)] # merkle_tree[LeafPos(1)]
    /\ merkle_tree[LeafPos(2)] # Z
    /\ merkle_tree[LeafPos(3)] = Z

\* total_shielded is total_deposits less the amounts of the successful
\* withdrawals, and is not above total_deposits
ShieldedIsDepositsLessWithdrawals ==
    /\ pool.total_shielded <= pool.total_deposits
    /\ pool.total_shielded = pool.total_deposits - hist.withdrawn

\* C38: in every reachable state total_shielded <= total_deposits and
\* total_shielded equals total_deposits minus the sum of the amounts of the
\* successful unshield, withdraw and withdraw_zk calls; and no step lowers
\* total_deposits.
C38_ShieldedWithinDeposits ==
    /\ []ShieldedIsDepositsLessWithdrawals
    /\ [][pool'.total_deposits >= pool.total_deposits]_vars

\* C38: a withdrawal has succeeded and has left part of the deposits
\* shielded.
C38_Witness ==
    /\ last.op \in Withdrawals /\ last.res = "Ok"
    /\ hist.withdrawn > 0
    /\ pool.total_shielded > 0
    /\ pool.total_shielded = pool.total_deposits - hist.withdrawn

\* the lamports of a sequence of transfers
RECURSIVE SumOfTransfers(_)
SumOfTransfers(ts) == IF ts = << >> THEN 0 ELSE Head(ts).lamports + SumOfTransfers(Tail(ts))

\* what a successful instruction does to the vault and to total_shielded
CustodyStep ==
    (last.op = "none" /\ last'.res = "Ok") =>
        /\ last'.op \in {"shield", "deposit"} =>
              /\ pool_vault' = pool_vault + last'.args.amount
              /\ pool'.total_shielded = pool.total_shielded + last'.args.amount
        /\ last'.op \in Withdrawals =>
              /\ pool_vault' = pool_vault - last'.args.amount
              /\ pool'.total_shielded = pool.total_shielded - last'.args.amount
              /\ SumOfTransfers(last'.transfers) = last'.args.amount
        /\ last'.op = "private_transfer" =>
              /\ pool_vault' = pool_vault
              /\ pool'.total_shielded = pool.total_shielded

\* C39: with a vault that receives lamports through shield and deposit
\* only, in every reachable state the vault balance equals total_shielded
\* and is not below zero; a successful shield adds its amount to both, a
\* successful withdrawal removes its amount from both, paid out as net
\* amount plus fee, and a private_transfer changes neither.
C39_CustodyMatchesAccounting ==
    /\ [](pool_vault = pool.total_shielded /\ pool_vault >= 0)
    /\ [][CustodyStep]_vars

\* C39: a withdrawal with a fee has succeeded and has left lamports in the
\* vault: they equal total_shielded.
C39_Witness ==
    /\ last.op \in Withdrawals /\ last.res = "Ok"
    /\ last.args.fee > 0
    /\ Len(last.transfers) = 2
    /\ pool_vault > 0
    /\ pool_vault = pool.total_shielded

\* C40: withdraw and withdraw_zk, failing or succeeding, change neither the
\* Merkle tree nor next_index, current_root, the root history or
\* total_deposits; shield and deposit do not change the nullifier set; and
\* no instruction other than initialize changes merkle_levels.
C40_Frame ==
    [][last.op = "none" =>
        /\ last'.op \in {"withdraw", "withdraw_zk"} =>
              /\ last'.written \cap {"tree", "roots"} = {}
              /\ merkle_tree' = merkle_tree
              /\ roots_history' = roots_history
              /\ pool'.next_index = pool.next_index
              /\ pool'.current_root = pool.current_root
              /\ pool'.total_deposits = pool.total_deposits
        /\ last'.op \in {"shield", "deposit"} =>
              /\ "nulls" \notin last'.written
              /\ nullifiers' = nullifiers
        /\ last'.op # "initialize" => pool'.merkle_levels = pool.merkle_levels]_vars

\* C40: a withdraw_zk has succeeded in a pool with leaves, pushed roots and
\* deposits: it has written the nullifier set and the pool, not the tree or
\* the history.
C40_Witness ==
    /\ last.op = "withdraw_zk" /\ last.res = "Ok"
    /\ "nulls" \in last.written /\ "pool" \in last.written
    /\ last.written \cap {"tree", "roots"} = {}
    /\ pool.next_index > 0 /\ hist.pushes > 0 /\ pool.total_deposits > 0
    /\ pool.current_root = merkle_tree[0]

\* C40: a shield has succeeded in a pool with a spent nullifier, which is
\* still recorded.
C40_ShieldKeepsNullifiers ==
    /\ last.op = "shield" /\ last.res = "Ok"
    /\ nullifiers.count > 0
    /\ "nulls" \notin last.written

====
